---- MODULE Spec2Model ----
(***************************************************************************)
(* Verification model of the CVM fund-data tooling:                        *)
(*   - the dashboard pipeline of script.py (load_state, smart extraction,  *)
(*     detect_changes, save_state) over the JSON state file,               *)
(*   - the SQLite snapshot store of src/storage.py,                        *)
(*   - the class-to-fund aggregation and merge of consolidador/merger.py.  *)
(***************************************************************************)
EXTENDS Integers, Sequences, FiniteSets, TLC

VARIABLES
    source,          \* the CKAN portal: dataset id -> metadata and resources
    stateFile,       \* content of cvm_state.json on disk
    pc,              \* position of exemplo_dashboard
    previous_state,  \* value returned by load_state in the current run
    all_data,        \* value returned by extract_all_resources_smart
    changes,         \* value returned by detect_changes
    fileAtLoad,      \* history: content of the state file when the run loaded it
    cleanSince,      \* history: a run completed and the source did not change since
    db,              \* SQLite tables datasets/resources of storage.py
    spc,             \* position of the storage scenario
    lastSaved,       \* history: argument of the last storage.save_state call
    loaded,          \* value returned by the last storage.load_state call
    classes_df,      \* class table given to the merger
    fundos_df,       \* fund table given to the merger
    class_agg,       \* result of _aggregate_classes_per_fund
    merged,          \* result of merge_fund_with_primary_class
    mpc,             \* position of the merger scenario
    cache,           \* the cache directory: file or directory name -> entry
    now,             \* the clock, in seconds
    ticks,           \* history: number of clock steps taken
    fetched,         \* the last fetcher call: arguments, result, network use
    fpc,             \* position of the fetcher scenario
    raw,             \* input of a parser: a CSV file, or a column of cells
    parsed,          \* what the parser gave back
    ppc,             \* position of the parser scenario
    cons,            \* locals of consolidate: the tables it holds
    outputs,         \* the output files written so far
    cpc,             \* position of consolidate
    cda,             \* locals of parse_cda_multiple and the fate of each period
    dpc,             \* position of parse_cda_multiple
    tabela_fundos,   \* table fundos of fundos.db: cnpj -> stored row
    fundos_historico,\* table fundos_historico of fundos.db, in id order
    resultado,       \* the last call on the fund database and what it returned
    lpc,             \* position of the fund database scenario
    changes_log,     \* table changes_log of storage.py, in id order
    log_calls        \* number of log_changes calls made so far

pipeVars  == <<source, stateFile, pc, previous_state, all_data, changes,
               fileAtLoad, cleanSince>>
storeVars == <<db, spc, lastSaved, loaded>>
mergeVars == <<classes_df, fundos_df, class_agg, merged, mpc>>
fetchVars == <<cache, now, ticks, fetched, fpc>>
parseVars == <<raw, parsed, ppc>>
consVars  == <<cons, outputs, cpc>>
cdaVars   == <<cda, dpc>>
ledgerVars == <<tabela_fundos, fundos_historico, resultado, lpc>>
dbVars    == <<ledgerVars, changes_log, log_calls>>
ioVars    == <<fetchVars, parseVars, consVars, cdaVars, dbVars>>
vars      == <<source, stateFile, pc, previous_state, all_data, changes,
               fileAtLoad, cleanSince, db, spc, lastSaved, loaded,
               classes_df, fundos_df, class_agg, merged, mpc,
               cache, now, ticks, fetched, fpc, raw, parsed, ppc,
               cons, outputs, cpc, cda, dpc,
               tabela_fundos, fundos_historico, resultado, lpc, changes_log,
               log_calls>>

(***************************************************************************)
(* Bounds                                                                  *)
(***************************************************************************)
MaxDatasets == 2

DatasetIds == 1..MaxDatasets
\* Timestamps are only ever compared for equality; these are the two values of
\* the specification's modified-dataset scenario.
Stamps == {"2024-01-01T00:00:00", "2024-02-01T00:00:00"}
\* CKAN resource ids are globally unique; every dataset owns one resource
\* slot, which is present or not.
ResourceIdsOf(d) == {d}
ResourceIds == UNION {ResourceIdsOf(d) : d \in DatasetIds}

(***************************************************************************)
(* Generic helpers                                                         *)
(***************************************************************************)
EmptyMap == <<>>

\* iteration order of a dict / list built in portal order (ascending id)
RECURSIVE SortedSeq(_)
SortedSeq(S) ==
    IF S = {} THEN <<>>
    ELSE LET m == CHOOSE x \in S : \A y \in S : x <= y
         IN <<m>> \o SortedSeq(S \ {m})

MapSeq(s, F(_)) == [i \in 1..Len(s) |-> F(s[i])]

RECURSIVE Flatten(_)
Flatten(ss) ==
    IF ss = <<>> THEN <<>> ELSE Head(ss) \o Flatten(Tail(ss))

FlatMap(s, F(_)) == Flatten(MapSeq(s, F))

Range(s) == {s[i] : i \in 1..Len(s)}

Put(f, k, v) == [x \in DOMAIN f \cup {k} |-> IF x = k THEN v ELSE f[x]]
Remove(f, k) == [x \in DOMAIN f \ {k} |-> f[x]]

PartialMaps(D, R) == UNION {[X -> R] : X \in SUBSET D}

(***************************************************************************)
(* The portal (source of truth of each run)                                *)
(***************************************************************************)
\* a dataset as package_show returns it: metadata_modified and its resources
SourceDatasets(d) ==
    [metadata_modified : Stamps,
     resources : PartialMaps(ResourceIdsOf(d), Stamps)]

\* resource list of a dataset as the API lists it
ResourceList(ds) ==
    MapSeq(SortedSeq(DOMAIN ds.resources),
           LAMBDA r : [id |-> r, last_modified |-> ds.resources[r]])

\* all_data entry built from package_show details (script.py 276-303 / 354-381)
DatasetInfo(ds) ==
    [metadata_modified |-> ds.metadata_modified,
     num_resources |-> Cardinality(DOMAIN ds.resources),
     resources |-> ResourceList(ds)]

\* extract_all_resources: fetch details of every listed dataset
extract_all_resources(src) == [d \in DOMAIN src |-> DatasetInfo(src[d])]

(***************************************************************************)
(* State file                                                              *)
(***************************************************************************)
\* kinds of state-file content:
\*   absent        no file
\*   corrupt       not parseable as JSON (json.load raises)
\*   nokey         valid JSON object without a 'datasets' key
\*   nulldatasets  valid JSON object whose 'datasets' is not a mapping
\*   state         what save_state writes
NoFile == [kind |-> "absent", datasets |-> EmptyMap]
EmptyState == [kind |-> "empty", datasets |-> EmptyMap]

\* load_state: {} when the file is missing or json.load raises, else its content
load_state(file) ==
    IF file.kind \in {"absent", "corrupt"} THEN EmptyState ELSE file

\* "not previous_state or 'datasets' not in previous_state"
NoPreviousState(prev) == prev.kind \in {"empty", "nokey"}

\* the state structure save_state builds from all_data
StateEntry(info) ==
    [metadata_modified |-> info.metadata_modified,
     num_resources |-> info.num_resources,
     resources |-> [r \in {info.resources[i].id : i \in 1..Len(info.resources)} |->
                      LET i == CHOOSE j \in 1..Len(info.resources) :
                                 /\ info.resources[j].id = r
                                 /\ \A k \in (j + 1)..Len(info.resources) :
                                        info.resources[k].id # r
                      IN [last_modified |-> info.resources[i].last_modified]]]

save_state(data) ==
    [kind |-> "state", datasets |-> [d \in DOMAIN data |-> StateEntry(data[d])]]

(***************************************************************************)
(* Smart extraction                                                        *)
(***************************************************************************)
\* _reconstruct_from_state: rebuild a dataset entry from the previous state
ReconstructNoResources(prev_dataset) ==
    [metadata_modified |-> prev_dataset.metadata_modified,
     num_resources |-> prev_dataset.num_resources,
     resources |-> <<>>]

reconstruct_from_state(prev_dataset) ==
    [metadata_modified |-> prev_dataset.metadata_modified,
     num_resources |-> prev_dataset.num_resources,
     resources |-> MapSeq(SortedSeq(DOMAIN prev_dataset.resources),
                          LAMBDA r : [id |-> r,
                                      last_modified |->
                                          prev_dataset.resources[r].last_modified])]

\* extract_all_resources_smart, for a previous state that has a datasets mapping
extract_all_resources_smart(src, prev) ==
    IF NoPreviousState(prev) THEN extract_all_resources(src)
    ELSE [d \in DOMAIN src |->
            IF /\ d \in DOMAIN prev.datasets
               /\ prev.datasets[d].metadata_modified = src[d].metadata_modified
            THEN reconstruct_from_state(prev.datasets[d])
            ELSE DatasetInfo(src[d])]

(***************************************************************************)
(* Change detection                                                        *)
(***************************************************************************)
NoChanges ==
    [new_datasets |-> <<>>, modified_datasets |-> <<>>, deleted_datasets |-> <<>>,
     new_resources |-> <<>>, modified_resources |-> <<>>, deleted_resources |-> <<>>]

NewDatasetItem(current_data, d) ==
    [id |-> d, num_resources |-> Len(current_data[d].resources)]

\* resource ids of a current dataset entry
CurrentResourceIds(info) == {info.resources[i].id : i \in 1..Len(info.resources)}

\* first-run shortcut that reports nothing
FirstRunReportsNothing(current_data) == NoChanges

\* "If no previous state, everything is new"
DetectFirstRun(current_data) ==
    [NoChanges EXCEPT
        !.new_datasets = MapSeq(SortedSeq(DOMAIN current_data),
                                LAMBDA d : NewDatasetItem(current_data, d))]

\* new-dataset test that also fires for a dataset whose timestamp changed
NewDatasetsAlsoModified(current_data, prev_datasets) ==
    MapSeq(SelectSeq(SortedSeq(DOMAIN current_data), LAMBDA d :
              \/ d \notin DOMAIN prev_datasets
              \/ current_data[d].metadata_modified
                    # prev_datasets[d].metadata_modified),
           LAMBDA d : NewDatasetItem(current_data, d))

\* datasets of current_data that are not in the previous state
DetectNewDatasets(current_data, prev_datasets) ==
    MapSeq(SelectSeq(SortedSeq(DOMAIN current_data),
                     LAMBDA d : d \notin DOMAIN prev_datasets),
           LAMBDA d : NewDatasetItem(current_data, d))

\* datasets in both whose metadata_modified differs
DetectModifiedDatasets(current_data, prev_datasets) ==
    MapSeq(SelectSeq(SortedSeq(DOMAIN current_data), LAMBDA d :
              /\ d \in DOMAIN prev_datasets
              /\ current_data[d].metadata_modified
                    # prev_datasets[d].metadata_modified),
           LAMBDA d : [id |-> d,
                       old_modified |-> prev_datasets[d].metadata_modified,
                       new_modified |-> current_data[d].metadata_modified])

\* datasets of the previous state that are not in current_data
DetectDeletedDatasets(current_data, prev_datasets) ==
    MapSeq(SelectSeq(SortedSeq(DOMAIN prev_datasets),
                     LAMBDA d : d \notin DOMAIN current_data),
           LAMBDA d : [id |-> d, num_resources |-> prev_datasets[d].num_resources])

\* datasets for which the resource check runs (the else branch of the loop)
DatasetsInBoth(current_data, prev_datasets) ==
    SelectSeq(SortedSeq(DOMAIN current_data), LAMBDA d : d \in DOMAIN prev_datasets)

DetectNewResources(current_data, prev_datasets) ==
    FlatMap(DatasetsInBoth(current_data, prev_datasets), LAMBDA d :
        MapSeq(SelectSeq(current_data[d].resources,
                         LAMBDA r : r.id \notin DOMAIN prev_datasets[d].resources),
               LAMBDA r : [dataset_id |-> d, resource |-> r]))

DetectModifiedResources(current_data, prev_datasets) ==
    FlatMap(DatasetsInBoth(current_data, prev_datasets), LAMBDA d :
        MapSeq(SelectSeq(current_data[d].resources, LAMBDA r :
                  /\ r.id \in DOMAIN prev_datasets[d].resources
                  /\ r.last_modified
                        # prev_datasets[d].resources[r.id].last_modified),
               LAMBDA r : [dataset_id |-> d, resource |-> r,
                           old_modified |->
                               prev_datasets[d].resources[r.id].last_modified,
                           new_modified |-> r.last_modified]))

\* the loop over prev_resource_ids - current_resource_ids is left out
DeletedResourcesNotReported(current_data, prev_datasets) == <<>>

\* the set difference is iterated in ascending id order here; Python leaves
\* the order of a set unspecified and no claim depends on it
DetectDeletedResources(current_data, prev_datasets) ==
    FlatMap(DatasetsInBoth(current_data, prev_datasets), LAMBDA d :
        MapSeq(SortedSeq(DOMAIN prev_datasets[d].resources
                            \ CurrentResourceIds(current_data[d])),
               LAMBDA r : [dataset_id |-> d, resource_id |-> r]))

\* detect_changes(current_data, previous_state), for a previous state that is
\* empty, lacks the 'datasets' key, or holds a datasets mapping
detect_changes(current_data, prev_state) ==
    IF NoPreviousState(prev_state) THEN DetectFirstRun(current_data)
    ELSE [new_datasets |-> DetectNewDatasets(current_data, prev_state.datasets),
          modified_datasets |->
              DetectModifiedDatasets(current_data, prev_state.datasets),
          deleted_datasets |->
              DetectDeletedDatasets(current_data, prev_state.datasets),
          new_resources |-> DetectNewResources(current_data, prev_state.datasets),
          modified_resources |->
              DetectModifiedResources(current_data, prev_state.datasets),
          deleted_resources |->
              DetectDeletedResources(current_data, prev_state.datasets)]

(***************************************************************************)
(* The dashboard run (exemplo_dashboard)                                   *)
(***************************************************************************)
AllSources ==
    UNION {{f \in [X -> UNION {SourceDatasets(d) : d \in X}] :
               \A d \in X : f[d] \in SourceDatasets(d)} : X \in SUBSET DatasetIds}

\* contents the state file can have before the first run of this program
InitialFiles ==
    {[kind |-> k, datasets |-> EmptyMap] :
        k \in {"absent", "corrupt", "nokey", "nulldatasets"}}

Failed == {"fetch_error", "state_error"}

PipeInit ==
    /\ source \in AllSources
    /\ stateFile \in InitialFiles
    /\ pc = "idle"
    /\ previous_state = EmptyState
    /\ all_data = EmptyMap
    /\ changes = NoChanges
    /\ fileAtLoad = NoFile
    /\ cleanSince = FALSE

StoreIdle ==
    /\ db = [datasets |-> EmptyMap, resources |-> EmptyMap]
    /\ spc = "off"
    /\ lastSaved = EmptyMap
    /\ loaded = EmptyState

MergeIdle ==
    /\ classes_df = [columns |-> {}, rows |-> <<>>]
    /\ fundos_df = [columns |-> {}, rows |-> <<>>]
    /\ class_agg = [columns |-> {}, rows |-> <<>>]
    /\ merged = [columns |-> {}, rows |-> <<>>]
    /\ mpc = "off"

\* no fetcher call was made: the cache directory is empty
NoFetch == [fn |-> "none"]

FetchIdle ==
    /\ cache = EmptyMap
    /\ now = 0
    /\ ticks = 0
    /\ fetched = NoFetch
    /\ fpc = "off"

ParseIdle ==
    /\ raw = <<>>
    /\ parsed = <<>>
    /\ ppc = "off"

ConsIdle ==
    /\ cons = <<>>
    /\ outputs = {}
    /\ cpc = "off"

CdaIdle ==
    /\ cda = <<>>
    /\ dpc = "off"

LedgerIdle ==
    /\ tabela_fundos = <<>>
    /\ fundos_historico = <<>>
    /\ resultado = [fn |-> "none"]
    /\ lpc = "off"

DbIdle ==
    /\ LedgerIdle
    /\ changes_log = <<>>
    /\ log_calls = 0

IoIdle ==
    /\ FetchIdle
    /\ ParseIdle
    /\ ConsIdle
    /\ CdaIdle
    /\ DbIdle

\* the portal publishes, updates or withdraws datasets and resources between runs
SourceChange ==
    /\ pc = "idle"
    /\ \E d \in DatasetIds :
          \/ d \in DOMAIN source /\ source' = Remove(source, d)
          \/ \E ds \in SourceDatasets(d) :
                /\ d \in DOMAIN source => ds # source[d]
                /\ source' = Put(source, d, ds)
    /\ cleanSince' = FALSE
    /\ UNCHANGED <<stateFile, pc, previous_state, all_data, changes, fileAtLoad>>
    /\ UNCHANGED <<storeVars, mergeVars, ioVars>>

\* previous_state = extractor.load_state()
LoadState ==
    /\ pc = "idle"
    /\ previous_state' = load_state(stateFile)
    /\ fileAtLoad' = stateFile
    /\ pc' = "loaded"
    /\ UNCHANGED <<source, stateFile, all_data, changes, cleanSince>>
    /\ UNCHANGED <<storeVars, mergeVars, ioVars>>

\* an extraction that checkpoints the state file while it fetches
ExtractAndCheckpoint ==
    /\ pc = "loaded"
    /\ previous_state.kind # "nulldatasets"
    /\ all_data' = extract_all_resources_smart(source, previous_state)
    /\ stateFile' = save_state(all_data')
    /\ pc' = "extracted"
    /\ UNCHANGED <<source, previous_state, changes, fileAtLoad, cleanSince>>
    /\ UNCHANGED <<storeVars, mergeVars, ioVars>>

\* all_data = extractor.extract_all_resources_smart(previous_state)
\* With 'datasets' present but not a mapping, prev_datasets.get raises
\* AttributeError on the first listed dataset.
ExtractAllResourcesSmart ==
    /\ pc = "loaded"
    /\ IF previous_state.kind = "nulldatasets"
       THEN IF source = EmptyMap
            THEN all_data' = EmptyMap /\ pc' = "extracted"
            ELSE all_data' = all_data /\ pc' = "state_error"
       ELSE /\ all_data' = extract_all_resources_smart(source, previous_state)
            /\ pc' = "extracted"
    /\ UNCHANGED <<source, stateFile, previous_state, changes, fileAtLoad,
                   cleanSince>>
    /\ UNCHANGED <<storeVars, mergeVars, ioVars>>

\* get_group_info / get_dataset_details re-raise any API error
ExtractFails ==
    /\ pc = "loaded"
    /\ pc' = "fetch_error"
    /\ UNCHANGED <<source, stateFile, previous_state, all_data, changes,
                   fileAtLoad, cleanSince>>
    /\ UNCHANGED <<storeVars, mergeVars, ioVars>>

\* changes = extractor.detect_changes(all_data, previous_state)
\* With 'datasets' present but not a mapping, prev_datasets.keys() raises.
DetectChanges ==
    /\ pc = "extracted"
    /\ IF previous_state.kind = "nulldatasets"
       THEN changes' = changes /\ pc' = "state_error"
       ELSE changes' = detect_changes(all_data, previous_state) /\ pc' = "detected"
    /\ UNCHANGED <<source, stateFile, previous_state, all_data, fileAtLoad,
                   cleanSince>>
    /\ UNCHANGED <<storeVars, mergeVars, ioVars>>

\* extractor.save_state(all_data)
SaveState ==
    /\ pc = "detected"
    /\ stateFile' = save_state(all_data)
    /\ cleanSince' = TRUE
    /\ pc' = "saved"
    /\ UNCHANGED <<source, previous_state, all_data, changes, fileAtLoad>>
    /\ UNCHANGED <<storeVars, mergeVars, ioVars>>

\* the process ends (after the exports, or with the exception)
EndRun ==
    /\ pc \in Failed \cup {"saved"}
    /\ pc' = "idle"
    /\ previous_state' = EmptyState
    /\ all_data' = EmptyMap
    /\ changes' = NoChanges
    /\ fileAtLoad' = NoFile
    /\ UNCHANGED <<source, stateFile, cleanSince>>
    /\ UNCHANGED <<storeVars, mergeVars, ioVars>>

Next ==
    \/ SourceChange
    \/ LoadState
    \/ ExtractAllResourcesSmart
    \/ ExtractFails
    \/ DetectChanges
    \/ SaveState
    \/ EndRun

Init == PipeInit /\ StoreIdle /\ MergeIdle /\ IoIdle
Spec == Init /\ [][Next]_vars

(***************************************************************************)
(* Properties of the dashboard run                                         *)
(***************************************************************************)
BucketIds(bucket) == {bucket[i].id : i \in 1..Len(bucket)}
CountId(bucket, d) == Cardinality({i \in 1..Len(bucket) : bucket[i].id = d})

\* C1: detect_changes puts every dataset id of current or previous in exactly
\* one of four states: new iff only in current, modified iff in both with a
\* different metadata_modified, deleted iff only in previous, unreported iff in
\* both with equal metadata_modified; no id is listed twice.
C1_DatasetClassification ==
    pc = "detected" =>
      LET cur == all_data
          prev == previous_state.datasets
      IN \A d \in DatasetIds :
           /\ d \in BucketIds(changes.new_datasets)
                <=> (d \in DOMAIN cur /\ d \notin DOMAIN prev)
           /\ d \in BucketIds(changes.modified_datasets)
                <=> (/\ d \in DOMAIN cur
                     /\ d \in DOMAIN prev
                     /\ cur[d].metadata_modified # prev[d].metadata_modified)
           /\ d \in BucketIds(changes.deleted_datasets)
                <=> (d \notin DOMAIN cur /\ d \in DOMAIN prev)
           /\ (CountId(changes.new_datasets, d)
                 + CountId(changes.modified_datasets, d)
                 + CountId(changes.deleted_datasets, d) = 0)
                <=> (/\ d \in DOMAIN cur
                     /\ d \in DOMAIN prev
                     /\ cur[d].metadata_modified = prev[d].metadata_modified
                    \/ (d \notin DOMAIN cur /\ d \notin DOMAIN prev))
           /\ CountId(changes.new_datasets, d)
                + CountId(changes.modified_datasets, d)
                + CountId(changes.deleted_datasets, d) <= 1

\* a diff that reports a modified dataset next to a deleted one
C1_Witness ==
    /\ pc = "detected"
    /\ changes.modified_datasets # <<>>
    /\ changes.deleted_datasets # <<>>

\* C2: when load_state returned the empty state, every current dataset is in
\* new_datasets (once) and the five other buckets are empty.
C2_FirstRunAllNew ==
    (pc = "detected" /\ previous_state = EmptyState) =>
        /\ BucketIds(changes.new_datasets) = DOMAIN all_data
        /\ Len(changes.new_datasets) = Cardinality(DOMAIN all_data)
        /\ changes.modified_datasets = <<>>
        /\ changes.deleted_datasets = <<>>
        /\ changes.new_resources = <<>>
        /\ changes.modified_resources = <<>>
        /\ changes.deleted_resources = <<>>

\* a first run over a portal that lists a dataset holding a resource
C2_Witness ==
    /\ pc = "detected"
    /\ previous_state = EmptyState
    /\ \E d \in DOMAIN all_data : all_data[d].resources # <<>>

C5_SaveAfterDiff ==
    /\ [](pc \in {"loaded", "extracted", "detected"} \cup Failed
            => stateFile = fileAtLoad)
    /\ [][stateFile' # stateFile => (pc = "detected" /\ pc' = "saved")]_vars

\* a run that failed on a fetch while a saved snapshot was on disk
C5_Witness ==
    /\ pc = "fetch_error"
    /\ stateFile.kind = "state"
    /\ stateFile.datasets # EmptyMap
    /\ stateFile = fileAtLoad

\* C6 as stated: an unreadable or malformed state file never aborts the run,
\* which then reports what a first run reports.
C6_MalformedStateIsFirstRun ==
    fileAtLoad.kind \in {"corrupt", "nokey", "nulldatasets"} =>
        /\ pc # "state_error"
        /\ pc \in {"extracted", "detected"} => all_data = extract_all_resources(source)
        /\ pc = "detected" => changes = DetectFirstRun(all_data)

(***************************************************************************)
(* SQLite snapshot store (src/storage.py)                                  *)
(***************************************************************************)
\* tables datasets (PRIMARY KEY id) and resources (PRIMARY KEY id)
EmptyDb == [datasets |-> EmptyMap, resources |-> EmptyMap]

\* the rows save_state writes for the resources of one dataset, later rows
\* with the same id replacing earlier ones (INSERT OR REPLACE)
RECURSIVE UpsertResources(_, _, _)
UpsertResources(table, d, resources) ==
    IF resources = <<>> THEN table
    ELSE UpsertResources(
            Put(table, Head(resources).id,
                [dataset_id |-> d, last_modified |-> Head(resources).last_modified]),
            d, Tail(resources))

RECURSIVE UpsertDatasets(_, _, _)
UpsertDatasets(database, data, ids) ==
    IF ids = <<>> THEN database
    ELSE LET d == Head(ids)
         IN UpsertDatasets(
               [datasets |-> Put(database.datasets, d,
                                 [metadata_modified |-> data[d].metadata_modified,
                                  num_resources |-> data[d].num_resources]),
                resources |-> UpsertResources(database.resources, d,
                                              data[d].resources)],
               data, Tail(ids))

\* storage.save_state(all_data): upserts every dataset and resource of all_data
storage_save_state(database, data) ==
    UpsertDatasets(database, data, SortedSeq(DOMAIN data))

\* storage.load_state(): every dataset row, with the resource rows that point to it
storage_load_state(database) ==
    [kind |-> "state",
     datasets |->
        [d \in DOMAIN database.datasets |->
            [metadata_modified |-> database.datasets[d].metadata_modified,
             num_resources |-> database.datasets[d].num_resources,
             resources |->
                [r \in {x \in DOMAIN database.resources :
                           database.resources[x].dataset_id = d} |->
                    [last_modified |-> database.resources[r].last_modified]]]]]

PipeIdle ==
    /\ source = EmptyMap
    /\ stateFile = NoFile
    /\ pc = "off"
    /\ previous_state = EmptyState
    /\ all_data = EmptyMap
    /\ changes = NoChanges
    /\ fileAtLoad = NoFile
    /\ cleanSince = FALSE

StoreInit ==
    /\ db = EmptyDb
    /\ spc = "start"
    /\ lastSaved = EmptyMap
    /\ loaded = storage_load_state(EmptyDb)

\* save_state(all_data) for any snapshot an extraction can produce
StorageSave ==
    /\ \E src \in AllSources :
          /\ lastSaved' = extract_all_resources(src)
          /\ db' = storage_save_state(db, lastSaved')
    /\ spc' = "saved"
    /\ UNCHANGED loaded
    /\ UNCHANGED <<pipeVars, mergeVars, ioVars>>

\* load_state() after a save
StorageLoad ==
    /\ spc = "saved"
    /\ loaded' = storage_load_state(db)
    /\ spc' = "loaded"
    /\ UNCHANGED <<db, lastSaved>>
    /\ UNCHANGED <<pipeVars, mergeVars, ioVars>>

StoreNext ==
    \/ StorageSave
    \/ StorageLoad

InitStore == PipeIdle /\ StoreInit /\ MergeIdle /\ IoIdle
SpecStore == InitStore /\ [][StoreNext]_vars

\* C4 as stated: a load that follows save_state(S) returns exactly the
\* datasets of S, each with exactly the resources it has in S.
C4_SaveReplacesSnapshot ==
    spc = "loaded" =>
        /\ DOMAIN loaded.datasets = DOMAIN lastSaved
        /\ \A d \in DOMAIN loaded.datasets \cap DOMAIN lastSaved :
              DOMAIN loaded.datasets[d].resources
                 = CurrentResourceIds(lastSaved[d])

(***************************************************************************)
(* Successive runs over the SQLite store                                   *)
(* (load_state, extraction, detect_changes, save_state)                    *)
(***************************************************************************)
InitStoreRuns ==
    /\ source \in AllSources
    /\ stateFile = NoFile
    /\ pc = "idle"
    /\ previous_state = EmptyState
    /\ all_data = EmptyMap
    /\ changes = NoChanges
    /\ fileAtLoad = NoFile
    /\ cleanSince = FALSE
    /\ StoreIdle
    /\ MergeIdle
    /\ IoIdle

\* previous_state = storage.load_state()
StoreLoadState ==
    /\ pc = "idle"
    /\ previous_state' = storage_load_state(db)
    /\ loaded' = previous_state'
    /\ pc' = "loaded"
    /\ UNCHANGED <<source, stateFile, all_data, changes, fileAtLoad, cleanSince>>
    /\ UNCHANGED <<db, spc, lastSaved>>
    /\ UNCHANGED <<mergeVars, ioVars>>

\* all_data = extractor.extract_all_resources()
ExtractAllResources ==
    /\ pc = "loaded"
    /\ all_data' = extract_all_resources(source)
    /\ pc' = "extracted"
    /\ UNCHANGED <<source, stateFile, previous_state, changes, fileAtLoad,
                   cleanSince>>
    /\ UNCHANGED <<storeVars, mergeVars, ioVars>>

\* storage.save_state(all_data)
StoreSaveState ==
    /\ pc = "detected"
    /\ db' = storage_save_state(db, all_data)
    /\ lastSaved' = all_data
    /\ cleanSince' = TRUE
    /\ pc' = "saved"
    /\ UNCHANGED <<source, stateFile, previous_state, all_data, changes,
                   fileAtLoad>>
    /\ UNCHANGED <<spc, loaded>>
    /\ UNCHANGED <<mergeVars, ioVars>>

StoreRunsNext ==
    \/ SourceChange
    \/ StoreLoadState
    \/ ExtractAllResources
    \/ DetectChanges
    \/ StoreSaveState
    \/ EndRun

SpecStoreRuns == InitStoreRuns /\ [][StoreRunsNext]_vars

\* C28 as stated: a run that follows a completed run, with the portal
\* unchanged in between, reports no deleted dataset and no deleted resource
\* (what disappeared was reported by the run before and is reported once).
C28_DeletionReportedOnce ==
    (pc = "detected" /\ cleanSince) =>
        /\ changes.deleted_datasets = <<>>
        /\ changes.deleted_resources = <<>>

(***************************************************************************)
(* The change log (storage.log_changes)                                    *)
(***************************************************************************)
MaxLogCalls == 2

\* item.get(key, default) of a report item; a stored id is kept apart from
\* the default, which is the empty string
StoredId(x) == [id |-> x]
EmptyString == [text |-> ""]
ItemGet(item, key) ==
    IF key \in DOMAIN item THEN StoredId(item[key]) ELSE EmptyString

DatasetBuckets == <<"new_datasets", "modified_datasets", "deleted_datasets">>
ResourceBuckets == <<"new_resources", "modified_resources", "deleted_resources">>

\* rows of the first loop: entity_id = item.get('id', str(item))
DatasetRows(report) ==
    FlatMap(DatasetBuckets, LAMBDA change_type :
        MapSeq(report[change_type], LAMBDA item :
            [change_type |-> change_type, entity_type |-> "dataset",
             entity_id |-> ItemGet(item, "id")]))

\* rows of the second loop: entity_id = item.get('resource_id', '')
ResourceRows(report) ==
    FlatMap(ResourceBuckets, LAMBDA change_type :
        MapSeq(report[change_type], LAMBDA item :
            [change_type |-> change_type, entity_type |-> "resource",
             entity_id |-> ItemGet(item, "resource_id")]))

\* log_changes(changes): INSERT one row per item, ids assigned in insertion
\* order (columns details and detected_at are read by no property here)
log_changes(log, report) == log \o DatasetRows(report) \o ResourceRows(report)

\* a change report of detect_changes is at hand and the log is empty
InitLog ==
    /\ \E before \in AllSources :
          previous_state = load_state(save_state(extract_all_resources(before)))
    /\ source \in AllSources
    /\ all_data = extract_all_resources(source)
    /\ changes = detect_changes(all_data, previous_state)
    /\ pc = "detected"
    /\ stateFile = NoFile
    /\ fileAtLoad = NoFile
    /\ cleanSince = FALSE
    /\ StoreIdle /\ MergeIdle
    /\ FetchIdle /\ ParseIdle /\ ConsIdle /\ CdaIdle /\ LedgerIdle
    /\ changes_log = <<>>
    /\ log_calls = 0

\* storage.log_changes(changes)
LogChanges ==
    /\ pc = "detected"
    /\ log_calls < MaxLogCalls
    /\ changes_log' = log_changes(changes_log, changes)
    /\ log_calls' = log_calls + 1
    /\ pc' = "logged"
    /\ UNCHANGED <<source, stateFile, previous_state, all_data, changes,
                   fileAtLoad, cleanSince>>
    /\ UNCHANGED <<storeVars, mergeVars, fetchVars, parseVars, consVars,
                   cdaVars, ledgerVars>>

\* the next run: the portal has moved on, the snapshot of the run before is
\* the previous state, and detect_changes builds the next report
NextReport ==
    /\ pc = "logged"
    /\ log_calls < MaxLogCalls
    /\ previous_state' = load_state(save_state(all_data))
    /\ source' \in AllSources
    /\ all_data' = extract_all_resources(source')
    /\ changes' = detect_changes(all_data', previous_state')
    /\ pc' = "detected"
    /\ UNCHANGED <<stateFile, fileAtLoad, cleanSince>>
    /\ UNCHANGED <<storeVars, mergeVars, ioVars>>

LogNext ==
    \/ LogChanges
    \/ NextReport

SpecLog == InitLog /\ [][LogNext]_vars

\* the identifier of the entity an item of a bucket is about
EntityOf(change_type, item) ==
    CASE change_type \in Range(DatasetBuckets) -> item.id
      [] change_type \in {"new_resources", "modified_resources"} -> item.resource.id
      [] OTHER -> item.resource_id

\* rows of a log that belong to one bucket
RowsOf(log, change_type) == SelectSeq(log, LAMBDA row : row.change_type = change_type)

\* C30: a call of log_changes leaves the rows already in changes_log as
\* they are and appends, for every one of the six buckets, exactly one row
\* per item, each row holding the id of the dataset or resource of its item.
C30_OneRowPerChange ==
    [][log_calls' # log_calls =>
         /\ Len(changes_log') >= Len(changes_log)
         /\ SubSeq(changes_log', 1, Len(changes_log)) = changes_log
         /\ LET appended == SubSeq(changes_log', Len(changes_log) + 1,
                                   Len(changes_log'))
            IN \A change_type \in Range(DatasetBuckets) \cup Range(ResourceBuckets) :
                  MapSeq(RowsOf(appended, change_type), LAMBDA row : row.entity_id)
                     = MapSeq(changes[change_type], LAMBDA item :
                                 StoredId(EntityOf(change_type, item)))]_vars

(***************************************************************************)
(* Class aggregation and merge (src/consolidador/merger.py)                *)
(***************************************************************************)
MaxFunds == 2
MaxClasses == 3
MaxMergeClasses == 2

FundIds == 1..MaxFunds

\* NaN / None of a DataFrame cell
Null == "NaN"

\* a DataFrame: its column names and its rows (functions column -> cell)
NoneDf == [columns |-> {}, rows |-> <<>>]
IsEmptyDf(df) == df.columns = {} \/ df.rows = <<>>

\* the class-level columns the merger aggregates, in the order of its loop
AggColumns ==
    <<"classificacao_anbima", "publico_alvo", "forma_condominio", "classe_esg",
      "exclusivo">>

\* sample cell values of each column
ColumnValues(c) ==
    CASE c = "classificacao_anbima" -> {"Renda Fixa", "Multimercados Livre"}
      [] c = "publico_alvo" ->
            {"Profissional", "Qualificado", "Público Geral", "Outro A", "Outro B"}
      [] c = "forma_condominio" -> {"Aberto", "Fechado"}
      [] c = "classe_esg" -> {"S", "s", "N"}
      [] c = "exclusivo" -> {"S", "N"}

\* publico_priority.get(x, 99)
PublicoPriority(x) ==
    CASE x = "Profissional" -> 1
      [] x = "Qualificado" -> 2
      [] x = "Público Geral" -> 3
      [] OTHER -> 99

\* str.upper() on the sample cell values; NaN stays NaN
Upper(x) == CASE x = "s" -> "S" [] x = "n" -> "N" [] OTHER -> x

\* series.dropna()
DropNa(series) == SelectSeq(series, LAMBDA x : x # Null)

\* priorities.argmin(): position of the first minimum
ArgMin(priorities) ==
    CHOOSE i \in 1..Len(priorities) :
        /\ \A j \in 1..Len(priorities) : priorities[i] <= priorities[j]
        /\ \A j \in 1..(i - 1) : priorities[j] > priorities[i]

\* position of the last minimum
ArgMinLast(priorities) ==
    CHOOSE i \in 1..Len(priorities) :
        /\ \A j \in 1..Len(priorities) : priorities[i] <= priorities[j]
        /\ \A j \in (i + 1)..Len(priorities) : priorities[j] > priorities[i]

\* most restrictive audience taken from the last class holding it
AggPublicoAlvoLast(series) ==
    LET valid == DropNa(series)
    IN IF valid = <<>> THEN Null
       ELSE valid[ArgMinLast(MapSeq(valid, PublicoPriority))]

agg_publico_alvo(series) ==
    LET valid == DropNa(series)
    IN IF valid = <<>> THEN Null
       ELSE valid[ArgMin(MapSeq(valid, PublicoPriority))]

\* ESG test without the upper-casing
AggEsgCaseSensitive(series) ==
    IF \E i \in 1..Len(series) : series[i] = "S" THEN "S" ELSE Null

agg_esg(series) ==
    IF \E i \in 1..Len(series) : Upper(series[i]) = "S" THEN "S" ELSE Null

\* value of the first class, null or not
FirstValue(series) == IF series = <<>> THEN Null ELSE series[1]

first_non_null(series) ==
    LET valid == DropNa(series)
    IN IF valid = <<>> THEN Null ELSE valid[1]

\* agg_funcs / agg_dict: the function applied to a column
AggFunc(c, series) ==
    CASE c = "publico_alvo" -> agg_publico_alvo(series)
      [] c = "classe_esg" -> agg_esg(series)
      [] OTHER -> first_non_null(series)

\* the cells of column c in the rows of fund f, in input order
GroupSeries(df, f, c) ==
    MapSeq(SelectSeq(df.rows, LAMBDA r : r["id_fundo"] = f), LAMBDA r : r[c])

\* _aggregate_classes_per_fund: one row per id_fundo, ascending
aggregate_classes_per_fund(df) ==
    LET agg_cols == {c \in Range(AggColumns) : c \in df.columns}
        funds == SortedSeq({df.rows[i]["id_fundo"] : i \in 1..Len(df.rows)})
    IN IF agg_cols = {} THEN [columns |-> {"id_fundo"}, rows |-> <<>>]
       ELSE [columns |-> {"id_fundo"} \cup agg_cols,
             rows |-> MapSeq(funds, LAMBDA f :
                         [c \in {"id_fundo"} \cup agg_cols |->
                             IF c = "id_fundo" THEN f
                             ELSE AggFunc(c, GroupSeries(df, f, c))])]

\* name pandas gives a class column that collides with a fund column
ClasseSuffix(c) ==
    CASE c = "classificacao_anbima" -> "classificacao_anbima_classe"
      [] c = "publico_alvo" -> "publico_alvo_classe"
      [] c = "forma_condominio" -> "forma_condominio_classe"
      [] c = "classe_esg" -> "classe_esg_classe"
      [] c = "exclusivo" -> "exclusivo_classe"

\* the join keeps only the fund rows that have a row in class_agg (how='inner')
InnerMerge(left, right) ==
    LET right_cols == right.columns \ {"id_fundo"}
        overlap == right_cols \cap left.columns
        right_only == right_cols \ left.columns
        cols == left.columns \cup right_only \cup {ClasseSuffix(c) : c \in overlap}
        Match(f) == SelectSeq(right.rows, LAMBDA r : r["id_fundo"] = f)
        Origin(c) == IF c \in right_only THEN c
                     ELSE CHOOSE o \in overlap : ClasseSuffix(o) = c
    IN [columns |-> cols,
        rows |-> MapSeq(SelectSeq(left.rows, LAMBDA lr : Match(lr["id_fundo"]) # <<>>),
                    LAMBDA lr :
                    [c \in cols |->
                        IF c \in left.columns THEN lr[c]
                        ELSE Match(lr["id_fundo"])[1][Origin(c)]])]

\* result.merge(class_agg, on='id_fundo', how='left', suffixes=('', '_classe'));
\* class_agg holds one row per id_fundo, so no fund row is multiplied
LeftMerge(left, right) ==
    LET right_cols == right.columns \ {"id_fundo"}
        overlap == right_cols \cap left.columns
        right_only == right_cols \ left.columns
        cols == left.columns \cup right_only \cup {ClasseSuffix(c) : c \in overlap}
        Match(f) == SelectSeq(right.rows, LAMBDA r : r["id_fundo"] = f)
        RightCell(f, c) == IF Match(f) = <<>> THEN Null ELSE Match(f)[1][c]
        Origin(c) == IF c \in right_only THEN c
                     ELSE CHOOSE o \in overlap : ClasseSuffix(o) = c
    IN [columns |-> cols,
        rows |-> MapSeq(left.rows, LAMBDA lr :
                    [c \in cols |->
                        IF c \in left.columns THEN lr[c]
                        ELSE RightCell(lr["id_fundo"], Origin(c))])]

\* the class value always replaces the fund value
TakeClassValue(fund_value, class_value) == class_value

\* result[col].fillna(result[col_classe]), cell by cell
FillNa(fund_value, class_value) ==
    IF fund_value = Null THEN class_value ELSE fund_value

\* "Fill missing values from class data": the loop over the five columns
FillFromClass(df) ==
    LET suffixed == {c \in Range(AggColumns) : ClasseSuffix(c) \in df.columns}
        cols == (df.columns \ {ClasseSuffix(c) : c \in suffixed}) \cup suffixed
    IN [columns |-> cols,
        rows |-> MapSeq(df.rows, LAMBDA r :
                    [c \in cols |->
                        IF c \notin suffixed THEN r[c]
                        ELSE IF c \in df.columns
                             THEN FillNa(r[c], r[ClasseSuffix(c)])
                             ELSE r[ClasseSuffix(c)]])]

\* merge_fund_with_primary_class(fundos_df, classes_df)
merge_fund_with_primary_class(fundos, classes) ==
    IF classes = NoneDf \/ IsEmptyDf(classes) THEN fundos
    ELSE FillFromClass(LeftMerge(fundos, aggregate_classes_per_fund(classes)))

(***************************************************************************)
(* Aggregation and merge scenarios                                         *)
(***************************************************************************)
\* columns a sample class table can hold next to the key: one of the five
\* class-level columns, or none ("id_fundo" alone)
ClassTableColumns == {"id_fundo"} \cup Range(AggColumns)

\* rows of a class table with the key and the column c
ClassRows(c) ==
    IF c = "id_fundo" THEN {("id_fundo" :> f) : f \in FundIds}
    ELSE {("id_fundo" :> f) @@ (c :> v) :
             f \in FundIds, v \in ColumnValues(c) \cup {Null}}

\* classes_df is a table of at most n rows
IsClassTable(df, n) ==
    \E c \in ClassTableColumns : \E k \in 0..n : \E rs \in [1..k -> ClassRows(c)] :
        df = [columns |-> {"id_fundo", c}, rows |-> rs]

\* a value a fund row can carry for a class-level column
FundLevelValue(c) ==
    CASE c = "classificacao_anbima" -> "Renda Fixa"
      [] c = "publico_alvo" -> "Público Geral"
      [] c = "forma_condominio" -> "Fechado"
      [] c = "classe_esg" -> "N"
      [] c = "exclusivo" -> "N"

\* fundos_df is a table with one row per registered fund, ascending id, with
\* or without one of the class-level columns
IsFundTable(df) ==
    \E c \in ClassTableColumns : \E F \in SUBSET FundIds :
        \E v \in [F -> IF c = "id_fundo" THEN {Null} ELSE {Null, FundLevelValue(c)}] :
            df = [columns |-> {"id_fundo", c},
                  rows |-> MapSeq(SortedSeq(F), LAMBDA f :
                              ("id_fundo" :> f) @@ (c :> v[f]))]

InitAgg ==
    /\ PipeIdle
    /\ StoreIdle
    /\ IoIdle
    /\ IsClassTable(classes_df, MaxClasses)
    /\ fundos_df = NoneDf
    /\ class_agg = NoneDf
    /\ merged = NoneDf
    /\ mpc = "input"

\* class_agg = _aggregate_classes_per_fund(classes_df)
AggregateClasses ==
    /\ mpc = "input"
    /\ class_agg' = aggregate_classes_per_fund(classes_df)
    /\ mpc' = "aggregated"
    /\ UNCHANGED <<classes_df, fundos_df, merged>>
    /\ UNCHANGED <<pipeVars, storeVars, ioVars>>

AggNext ==
    \/ AggregateClasses

SpecAgg == InitAgg /\ [][AggNext]_vars

InitMerge ==
    /\ PipeIdle
    /\ StoreIdle
    /\ IoIdle
    /\ classes_df = NoneDf \/ IsClassTable(classes_df, MaxMergeClasses)
    /\ IsFundTable(fundos_df)
    /\ class_agg = NoneDf
    /\ merged = NoneDf
    /\ mpc = "input"

\* merged_df = merge_fund_with_primary_class(fundos_df, classes_df)
MergeFundWithPrimaryClass ==
    /\ mpc = "input"
    /\ merged' = merge_fund_with_primary_class(fundos_df, classes_df)
    /\ class_agg' = IF classes_df = NoneDf \/ IsEmptyDf(classes_df) THEN NoneDf
                    ELSE aggregate_classes_per_fund(classes_df)
    /\ mpc' = "merged"
    /\ UNCHANGED <<classes_df, fundos_df>>
    /\ UNCHANGED <<pipeVars, storeVars, ioVars>>

MergeNext ==
    \/ MergeFundWithPrimaryClass

SpecMerge == InitMerge /\ [][MergeNext]_vars

(***************************************************************************)
(* Properties of the aggregation and the merge                             *)
(***************************************************************************)
\* funds that own at least one row of the class table
FundsWithClasses == {classes_df.rows[i]["id_fundo"] : i \in 1..Len(classes_df.rows)}

\* the aggregated cell of fund f and column c, Null when class_agg has none
AggCell(f, c) ==
    IF c \notin class_agg.columns
       \/ ~\E i \in 1..Len(class_agg.rows) : class_agg.rows[i]["id_fundo"] = f
    THEN Null
    ELSE LET i == CHOOSE j \in 1..Len(class_agg.rows) :
                      class_agg.rows[j]["id_fundo"] = f
         IN class_agg.rows[i][c]

\* the class table with rows k and k + 1 exchanged; every reordering of the
\* rows is a chain of such exchanges
Exchanged(df, k) ==
    [df EXCEPT !.rows = [i \in 1..Len(df.rows) |->
                            IF i = k THEN df.rows[k + 1]
                            ELSE IF i = k + 1 THEN df.rows[k]
                            ELSE df.rows[i]]]

\* C7: the aggregated publico_alvo of a fund is the non-null value of lowest
\* priority number (Profissional 1, Qualificado 2, Publico Geral 3, other 99),
\* taken from the first class holding that priority; its priority does not
\* depend on the order of the classes; it is null when every value is null.
C7_MostRestrictiveAudience ==
    (mpc = "aggregated" /\ "publico_alvo" \in classes_df.columns) =>
      \A f \in FundsWithClasses :
        LET series == GroupSeries(classes_df, f, "publico_alvo")
            result == AggCell(f, "publico_alvo")
        IN IF \A i \in 1..Len(series) : series[i] = Null
           THEN result = Null
           ELSE /\ \E i \in 1..Len(series) :
                      /\ series[i] # Null
                      /\ result = series[i]
                      /\ \A j \in 1..Len(series) :
                            series[j] # Null =>
                              PublicoPriority(series[j]) >= PublicoPriority(series[i])
                      /\ \A j \in 1..(i - 1) :
                            series[j] # Null =>
                              PublicoPriority(series[j]) > PublicoPriority(series[i])
                /\ \A k \in 1..(Len(classes_df.rows) - 1) :
                      LET other == agg_publico_alvo(
                                      GroupSeries(Exchanged(classes_df, k), f,
                                                  "publico_alvo"))
                      IN /\ other # Null
                         /\ PublicoPriority(other) = PublicoPriority(result)

\* a fund whose first class has no audience, whose second is general public
\* and whose third is professional
C7_Witness ==
    /\ mpc = "aggregated"
    /\ "publico_alvo" \in classes_df.columns
    /\ \E f \in FundsWithClasses :
          /\ GroupSeries(classes_df, f, "publico_alvo")
                = <<Null, "Público Geral", "Profissional">>
          /\ AggCell(f, "publico_alvo") = "Profissional"

\* C8: the aggregated classificacao_anbima, forma_condominio and exclusivo of
\* a fund are the value of its first class, in input order, that has one, and
\* null when none of its classes has one.
C8_FirstNonNull ==
    mpc = "aggregated" =>
      \A c \in {"classificacao_anbima", "forma_condominio", "exclusivo"}
                  \cap classes_df.columns :
        \A f \in FundsWithClasses :
          LET series == GroupSeries(classes_df, f, c)
              result == AggCell(f, c)
          IN IF \A i \in 1..Len(series) : series[i] = Null
             THEN result = Null
             ELSE \E i \in 1..Len(series) :
                     /\ series[i] # Null
                     /\ \A j \in 1..(i - 1) : series[j] = Null
                     /\ result = series[i]

\* a fund whose first class has no classification and whose next two classes
\* have different ones
C8_Witness ==
    /\ mpc = "aggregated"
    /\ "classificacao_anbima" \in classes_df.columns
    /\ \E f \in FundsWithClasses :
          /\ GroupSeries(classes_df, f, "classificacao_anbima")
                = <<Null, "Renda Fixa", "Multimercados Livre">>
          /\ AggCell(f, "classificacao_anbima") = "Renda Fixa"

\* C9: the aggregated ESG flag of a fund is 'S' when one of its classes has
\* classe_esg 's' or 'S', and null otherwise.
C9_EsgAnyOrNull ==
    (mpc = "aggregated" /\ "classe_esg" \in classes_df.columns) =>
      \A f \in FundsWithClasses :
        LET series == GroupSeries(classes_df, f, "classe_esg")
        IN AggCell(f, "classe_esg")
             = IF \E i \in 1..Len(series) : series[i] \in {"s", "S"}
               THEN "S" ELSE Null

\* a fund whose only ESG class is marked with a lower-case 's', next to a fund
\* whose classes are all marked 'N'
C9_Witness ==
    /\ mpc = "aggregated"
    /\ "classe_esg" \in classes_df.columns
    /\ \E f \in FundsWithClasses :
          /\ GroupSeries(classes_df, f, "classe_esg") = <<"N", "s">>
          /\ AggCell(f, "classe_esg") = "S"
    /\ \E f \in FundsWithClasses :
          /\ GroupSeries(classes_df, f, "classe_esg") = <<"N">>
          /\ AggCell(f, "classe_esg") = Null

\* C10: the merge keeps every fund row, keeps every non-null fund-level value
\* of the five class-level columns, and uses the aggregated class value only
\* where the fund-level value is null or the fund table lacks the column.
C10_ClassDataFillsGaps ==
    mpc = "merged" =>
      /\ Len(merged.rows) = Len(fundos_df.rows)
      /\ \A i \in 1..Len(fundos_df.rows) : \A c \in Range(AggColumns) :
            LET has_fund_value == c \in fundos_df.columns
                                     /\ fundos_df.rows[i][c] # Null
            IN /\ has_fund_value =>
                    (c \in merged.columns
                       /\ merged.rows[i][c] = fundos_df.rows[i][c])
               /\ (c \in merged.columns /\ ~has_fund_value) =>
                    merged.rows[i][c] = AggCell(fundos_df.rows[i]["id_fundo"], c)

\* a fund row whose own audience differs from the one its classes aggregate
\* to, next to a fund row without a value that takes the class one
C10_Witness ==
    /\ mpc = "merged"
    /\ "publico_alvo" \in fundos_df.columns
    /\ \E i, k \in 1..Len(fundos_df.rows) :
          /\ fundos_df.rows[i]["publico_alvo"] = "Público Geral"
          /\ AggCell(fundos_df.rows[i]["id_fundo"], "publico_alvo") = "Profissional"
          /\ merged.rows[i]["publico_alvo"] = "Público Geral"
          /\ fundos_df.rows[k]["publico_alvo"] = Null
          /\ merged.rows[k]["publico_alvo"] = "Qualificado"

\* the cell of a row in column c, null when the table has no such column
CellOrNull(row, c) == IF c \in DOMAIN row THEN row[c] ELSE Null

MaxUrlLen == 3
MaxTicks == 2

\* seconds a cached file of CVMDownloader.baixar_csv stays valid
CacheMaxAge == 3600

\* a locator is a sequence of characters; ".zip" stands for that extension
UrlChars == {"a", "b", "/", ":", "_", ".zip"}

\* position of the last '/' of the locator, 0 when it has none
LastSlash(url) ==
    IF \E i \in 1..Len(url) : url[i] = "/"
    THEN CHOOSE i \in 1..Len(url) :
            url[i] = "/" /\ \A j \in (i + 1)..Len(url) : url[j] # "/"
    ELSE 0

\* url.split('/')[-1]
LastSegment(url) == SubSeq(url, LastSlash(url) + 1, Len(url))

\* get_cache_path(url): the file name under CACHE_DIR
get_cache_path(url) == LastSegment(url)

\* zip_name = url.split('/')[-1].replace('.zip', ''): the directory under CACHE_DIR
zip_name(url) == SelectSeq(LastSegment(url), LAMBDA ch : ch # ".zip")

\* arquivo_cache = url.replace('/', '_').replace(':', '_')
arquivo_cache(url) ==
    [i \in 1..Len(url) |-> IF url[i] \in {"/", ":"} THEN "_" ELSE url[i]]

\* an entry of the cache directory
FileEntry(content, mtime) == [kind |-> "file", content |-> content, mtime |-> mtime]
DirEntry(files) == [kind |-> "dir", files |-> files]

\* what a fetcher call gives back to its caller
ReturnsPath(path) == [status |-> "path", path |-> path]
ReturnsNone == [status |-> "none"]
ReturnsBool(b) == [status |-> "bool", value |-> b]
ReturnsRows(content) == [status |-> "rows", rows |-> content]
Raises(exception) == [status |-> "raised", exception |-> exception]

\* outcomes of one HTTP request: a 200 response with a body, an error status
\* (raise_for_status raises HTTPError), a timeout or a connection error
FailureKinds == {"http_error", "timeout", "connection_error"}
OkResponse(body) == [kind |-> "ok", body |-> body]
FailedResponse(kind) == [kind |-> kind]

\* url_exists(url): HEAD request, True only for status 200
url_exists(url, response) ==
    [result |-> ReturnsBool(response.kind = "ok"), net |-> TRUE]

\* the cached copy is used only when a re-download is forced
UsesCacheWhenForced(use_cache, force) == use_cache /\ force

\* "use_cache and not force" of download_csv and download_zip
UsesCache(use_cache, force) == use_cache /\ ~force

\* download_csv(url, use_cache, force) at time t, the request (if one is made)
\* being answered by response: the value returned, the cache directory after
\* the call, and whether a request was made
download_csv(dir, url, use_cache, force, response, t) ==
    LET cache_path == get_cache_path(url)
    IN IF UsesCache(use_cache, force) /\ cache_path \in DOMAIN dir
       THEN [result |-> ReturnsPath(cache_path), cache |-> dir, net |-> FALSE]
       ELSE IF response.kind = "ok"
            THEN [result |-> ReturnsPath(cache_path),
                  cache |-> Put(dir, cache_path, FileEntry(response.body, t)),
                  net |-> TRUE]
            ELSE [result |-> ReturnsNone, cache |-> dir, net |-> TRUE]

\* a response body that is no ZIP archive (zipfile.BadZipFile)
NotAZip == [members |-> {}, valid |-> FALSE]
ZipArchive(members) == [members |-> members, valid |-> TRUE]

\* extract_to.exists() and any(extract_to.iterdir())
IsExtracted(dir, extract_to) ==
    /\ extract_to \in DOMAIN dir
    /\ dir[extract_to].kind = "dir"
    /\ dir[extract_to].files # {}

\* extract_to.mkdir(parents=True, exist_ok=True)
Mkdir(dir, extract_to) ==
    IF extract_to \in DOMAIN dir THEN dir ELSE Put(dir, extract_to, DirEntry({}))

\* download_zip(url, None, use_cache, force): the directory is created before
\* the archive is opened, and extractall adds to the files already there
download_zip(dir, url, use_cache, force, response) ==
    LET extract_to == zip_name(url)
    IN IF UsesCache(use_cache, force) /\ extract_to \in DOMAIN dir
          /\ dir[extract_to].kind = "file"
       THEN [result |-> Raises("NotADirectoryError"), cache |-> dir, net |-> FALSE]
       ELSE IF UsesCache(use_cache, force) /\ IsExtracted(dir, extract_to)
       THEN [result |-> ReturnsPath(extract_to), cache |-> dir, net |-> FALSE]
       ELSE IF response.kind # "ok"
       THEN [result |-> ReturnsNone, cache |-> dir, net |-> TRUE]
       ELSE IF extract_to \in DOMAIN dir /\ dir[extract_to].kind = "file"
       THEN [result |-> Raises("FileExistsError"), cache |-> dir, net |-> TRUE]
       ELSE IF ~response.body.valid
       THEN [result |-> ReturnsNone, cache |-> Mkdir(dir, extract_to), net |-> TRUE]
       ELSE [result |-> ReturnsPath(extract_to),
             cache |-> Put(dir, extract_to,
                           DirEntry(Mkdir(dir, extract_to)[extract_to].files
                                       \cup response.body.members)),
             net |-> TRUE]

\* CVMDownloader.baixar_csv(url, usar_cache) at time t (CVMDataDownloader.
\* download_csv of fund_analyzer.py is the same code): the rows parsed from
\* the body are what is cached and returned; nothing catches the exceptions
\* of session.get and raise_for_status
baixar_csv(dir, url, usar_cache, response, t) ==
    LET arquivo == arquivo_cache(url)
    IN IF usar_cache /\ arquivo \in DOMAIN dir
          /\ t - dir[arquivo].mtime < CacheMaxAge
       THEN [result |-> ReturnsRows(dir[arquivo].content), cache |-> dir,
             net |-> FALSE]
       ELSE IF response.kind = "ok"
            THEN [result |-> ReturnsRows(response.body),
                  cache |-> Put(dir, arquivo, FileEntry(response.body, t)),
                  net |-> TRUE]
            ELSE [result |-> Raises(response.kind), cache |-> dir, net |-> TRUE]

(***************************************************************************)
(* Fetcher scenario: calls of the four fetch functions on one cache        *)
(* directory, with the clock advancing between calls                       *)
(***************************************************************************)
\* two CSV locators and one archive locator
CsvLocators == {<<"a", ":", "/", "b">>, <<"a", "_", "/", "b">>}
ZipLocators == {<<"a", "/", "c", ".zip">>}

\* the body the server sends for a CSV locator
CsvBody(url) == [of |-> url]

\* answers to a GET of a CSV, to a GET of an archive, and to a HEAD
CsvResponses(url) ==
    {OkResponse(CsvBody(url))} \cup {FailedResponse(k) : k \in FailureKinds}
ZipResponses ==
    {OkResponse(NotAZip)}
      \cup {OkResponse(ZipArchive(m)) : m \in {{}, {"x.csv"}}}
      \cup {FailedResponse(k) : k \in FailureKinds}
HeadResponses == {OkResponse("")} \cup {FailedResponse(k) : k \in FailureKinds}

\* age of the file a fetcher finds under name, 0 when there is none
AgeOf(dir, name, t) ==
    IF name \in DOMAIN dir /\ dir[name].kind = "file" THEN t - dir[name].mtime ELSE 0

FetchInit ==
    /\ cache = EmptyMap
    /\ now = 0
    /\ ticks = 0
    /\ fetched = NoFetch
    /\ fpc = "ready"

\* time passes between two calls: a second, or a second less than an hour
Tick ==
    /\ fpc = "ready"
    /\ ticks < MaxTicks
    /\ \E d \in {1, CacheMaxAge - 1} : now' = now + d
    /\ ticks' = ticks + 1
    /\ UNCHANGED <<cache, fetched, fpc>>
    /\ UNCHANGED <<pipeVars, storeVars, mergeVars, parseVars, consVars, cdaVars, dbVars>>

DownloadCsv ==
    /\ fpc = "ready"
    /\ \E url \in CsvLocators : \E use_cache, force \in BOOLEAN :
       \E response \in CsvResponses(url) :
          LET r == download_csv(cache, url, use_cache, force, response, now)
          IN /\ cache' = r.cache
             /\ fetched' = [fn |-> "download_csv", url |-> url,
                            use_cache |-> use_cache, force |-> force,
                            result |-> r.result, net |-> r.net,
                            found |-> get_cache_path(url) \in DOMAIN cache,
                            age |-> AgeOf(cache, get_cache_path(url), now)]
    /\ UNCHANGED <<now, ticks, fpc>>
    /\ UNCHANGED <<pipeVars, storeVars, mergeVars, parseVars, consVars, cdaVars, dbVars>>

DownloadZip ==
    /\ fpc = "ready"
    /\ \E url \in ZipLocators : \E use_cache, force \in BOOLEAN :
       \E response \in ZipResponses :
          LET r == download_zip(cache, url, use_cache, force, response)
          IN /\ cache' = r.cache
             /\ fetched' = [fn |-> "download_zip", url |-> url,
                            use_cache |-> use_cache, force |-> force,
                            result |-> r.result, net |-> r.net,
                            found |-> IsExtracted(cache, zip_name(url)),
                            age |-> 0]
    /\ UNCHANGED <<now, ticks, fpc>>
    /\ UNCHANGED <<pipeVars, storeVars, mergeVars, parseVars, consVars, cdaVars, dbVars>>

UrlExists ==
    /\ fpc = "ready"
    /\ \E url \in CsvLocators \cup ZipLocators : \E response \in HeadResponses :
          LET r == url_exists(url, response)
          IN fetched' = [fn |-> "url_exists", url |-> url,
                         use_cache |-> FALSE, force |-> FALSE,
                         result |-> r.result, net |-> r.net,
                         found |-> FALSE, age |-> 0]
    /\ UNCHANGED <<cache, now, ticks, fpc>>
    /\ UNCHANGED <<pipeVars, storeVars, mergeVars, parseVars, consVars, cdaVars, dbVars>>

BaixarCsv ==
    /\ fpc = "ready"
    /\ \E url \in CsvLocators : \E usar_cache \in BOOLEAN :
       \E response \in CsvResponses(url) :
          LET r == baixar_csv(cache, url, usar_cache, response, now)
          IN /\ cache' = r.cache
             /\ fetched' = [fn |-> "baixar_csv", url |-> url,
                            use_cache |-> usar_cache, force |-> FALSE,
                            result |-> r.result, net |-> r.net,
                            found |-> arquivo_cache(url) \in DOMAIN cache,
                            age |-> AgeOf(cache, arquivo_cache(url), now)]
    /\ UNCHANGED <<now, ticks, fpc>>
    /\ UNCHANGED <<pipeVars, storeVars, mergeVars, parseVars, consVars, cdaVars, dbVars>>

FetchNext ==
    \/ Tick
    \/ DownloadCsv
    \/ DownloadZip
    \/ UrlExists
    \/ BaixarCsv

InitFetch ==
    /\ PipeIdle /\ StoreIdle /\ MergeIdle
    /\ ParseIdle /\ ConsIdle /\ CdaIdle /\ DbIdle
    /\ FetchInit
SpecFetch == InitFetch /\ [][FetchNext]_vars

(***************************************************************************)
(* Cache keys of two distinct locators                                     *)
(***************************************************************************)
\* every locator of at most MaxUrlLen characters
Locators == UNION {[1..n -> UrlChars] : n \in 1..MaxUrlLen}

InitKeys ==
    /\ PipeIdle /\ StoreIdle /\ MergeIdle
    /\ ParseIdle /\ ConsIdle /\ CdaIdle /\ DbIdle
    /\ cache = EmptyMap
    /\ now = 0
    /\ ticks = 0
    /\ \E u1, u2 \in Locators :
          /\ u1 # u2
          /\ fetched = [fn |-> "locators", url |-> u1, other |-> u2]
    /\ fpc = "keys"

\* the names the three fetchers give the cached artifacts of both locators
ComputeCacheKeys ==
    /\ fpc = "keys"
    /\ fetched.fn = "locators"
    /\ fetched' = [fn |-> "keys", url |-> fetched.url, other |-> fetched.other,
                   csv |-> <<get_cache_path(fetched.url),
                             get_cache_path(fetched.other)>>,
                   zip |-> <<zip_name(fetched.url), zip_name(fetched.other)>>,
                   legacy |-> <<arquivo_cache(fetched.url),
                                arquivo_cache(fetched.other)>>]
    /\ UNCHANGED <<cache, now, ticks, fpc>>
    /\ UNCHANGED <<pipeVars, storeVars, mergeVars, parseVars, consVars, cdaVars, dbVars>>

KeysNext ==
    \/ ComputeCacheKeys

SpecKeys == InitKeys /\ [][KeysNext]_vars

(***************************************************************************)
(* Properties of the fetcher                                               *)
(***************************************************************************)
\* the last call was a fetch that found a populated cache entry it may use
CacheUsable ==
    /\ fetched.fn \in {"download_csv", "download_zip", "baixar_csv"}
    /\ fetched.use_cache
    /\ ~fetched.force
    /\ fetched.found
    /\ fetched.fn = "baixar_csv" => fetched.age < CacheMaxAge

\* C12: a fetch with caching allowed and force false that finds the cache
\* populated for its locator (for baixar_csv: by a file younger than an
\* hour) makes no request and returns the cached file, directory or rows;
\* a call that makes no request leaves the cache directory as it was, so an
\* extracted archive is not extracted again.
C12_CacheHitWithoutNetwork ==
    /\ [](CacheUsable =>
            /\ ~fetched.net
            /\ fetched.fn = "download_csv" =>
                  /\ fetched.result = ReturnsPath(get_cache_path(fetched.url))
                  /\ get_cache_path(fetched.url) \in DOMAIN cache
            /\ fetched.fn = "download_zip" =>
                  /\ fetched.result = ReturnsPath(zip_name(fetched.url))
                  /\ IsExtracted(cache, zip_name(fetched.url))
            /\ fetched.fn = "baixar_csv" =>
                  fetched.result
                     = ReturnsRows(cache[arquivo_cache(fetched.url)].content))
    /\ [][(fetched'.fn # "none" /\ ~fetched'.net) => cache' = cache]_vars

\* baixar_csv served from a file one second short of an hour old, the rows
\* being those a fetch of the other locator had cached
C12_Witness ==
    /\ CacheUsable
    /\ fetched.fn = "baixar_csv"
    /\ fetched.age = CacheMaxAge - 1
    /\ ~fetched.net
    /\ fetched.result.status = "rows"
    /\ fetched.result.rows # CsvBody(fetched.url)

\* C13: two distinct locators never share a cache name, in any of the three
\* fetchers.
C13_CacheKeysCollisionFree ==
    fetched.fn = "keys" =>
      /\ fetched.csv[1] # fetched.csv[2]
      /\ fetched.zip[1] # fetched.zip[2]
      /\ fetched.legacy[1] # fetched.legacy[2]

\* C14: a CSV fetch with force false that finds a cached copy one hour old
\* or older makes a request, and on success replaces the copy.
C14_CsvCacheExpires ==
    (/\ fetched.fn \in {"download_csv", "baixar_csv"}
     /\ ~fetched.force
     /\ fetched.found
     /\ fetched.age >= CacheMaxAge) =>
        /\ fetched.net
        /\ fetched.result.status \in {"path", "rows"} =>
              \E name \in DOMAIN cache :
                 cache[name] = FileEntry(CsvBody(fetched.url), now)

\* C15: no fetcher call ends with an exception raised to its caller.
C15_FailuresAreValues ==
    fetched.fn \in {"download_csv", "download_zip", "url_exists", "baixar_csv"} =>
       fetched.result.status # "raised"

(***************************************************************************)
(* Numeric coercion (_to_float of parsers/rcvm175.py and parsers/cda.py,   *)
(* the try blocks of AnalisadorFundos.carregar_dados)                      *)
(***************************************************************************)
MaxCellLen == 2

\* a cell is a text, a sequence of characters; "nan" is the text astype(str)
\* gives a missing cell (NaN)
CellChars == {"0", "1", ",", ".", "-", "a"}
NaNCell == <<"nan">>
\* the text "1.234,56": thousands separator and decimal comma
LocaleCell == <<"1", ".", "2", "3", "4", ",", "5", "6">>
Cells == {NaNCell} \cup UNION {[1..n -> CellChars] : n \in 0..MaxCellLen}

\* a float, as its digits read as an integer and the number of decimals
Number(mantissa, decimals) == [null |-> FALSE, mantissa |-> mantissa, decimals |-> decimals]
NaN == [null |-> TRUE]

\* Series.str.replace(',', '.') / str.replace(',', '.')
ReplaceComma(text) == [i \in 1..Len(text) |-> IF text[i] = "," THEN "." ELSE text[i]]

IsDigit(ch) == ch \in {"0", "1", "2", "3", "4", "5", "6", "7", "8", "9"}
DigitValue(ch) ==
    CASE ch = "0" -> 0 [] ch = "1" -> 1 [] ch = "2" -> 2 [] ch = "3" -> 3
      [] ch = "4" -> 4 [] ch = "5" -> 5 [] ch = "6" -> 6 [] ch = "7" -> 7
      [] ch = "8" -> 8 [] ch = "9" -> 9

\* the text without its leading minus sign
Unsigned(text) == IF Len(text) > 0 /\ text[1] = "-" THEN Tail(text) ELSE text

\* the text is a decimal number: an optional sign, digits with at most one
\* period among them, at least one digit
IsDecimal(text) ==
    LET u == Unsigned(text)
    IN /\ \A i \in 1..Len(u) : IsDigit(u[i]) \/ u[i] = "."
       /\ Cardinality({i \in 1..Len(u) : u[i] = "."}) <= 1
       /\ \E i \in 1..Len(u) : IsDigit(u[i])

RECURSIVE DigitsValue(_)
DigitsValue(digits) ==
    IF digits = <<>> THEN 0
    ELSE 10 * DigitsValue(SubSeq(digits, 1, Len(digits) - 1))
           + DigitValue(digits[Len(digits)])

\* the value of a decimal text
DecimalValue(text) ==
    LET u == Unsigned(text)
        digits == SelectSeq(u, IsDigit)
        point == IF \E i \in 1..Len(u) : u[i] = "."
                 THEN CHOOSE i \in 1..Len(u) : u[i] = "." ELSE Len(u) + 1
        decimals == Len(SelectSeq(SubSeq(u, point, Len(u)), IsDigit))
        magnitude == DigitsValue(digits)
    IN Number(IF text[1] = "-" THEN 0 - magnitude ELSE magnitude, decimals)

\* a cell that does not parse becomes zero
ToNumericFillZero(text) ==
    IF text # NaNCell /\ IsDecimal(text) THEN DecimalValue(text) ELSE Number(0, 0)

\* pd.to_numeric(..., errors='coerce') of one cell
to_numeric(text) ==
    IF text # NaNCell /\ IsDecimal(text) THEN DecimalValue(text) ELSE NaN

\* df.get(column): the cells of the column, or None when the table has none
Column(cells) == [present |-> TRUE, cells |-> cells]
NoColumn == [present |-> FALSE, cells |-> <<>>]

\* _to_float(series): None for no series, else every cell converted in place
to_float(series) ==
    IF ~series.present THEN NoColumn
    ELSE Column([i \in 1..Len(series.cells) |->
                    to_numeric(ReplaceComma(series.cells[i]))])

\* the try blocks of carregar_dados: the attribute stays None unless the text
\* is non-empty and float() accepts it; a missing cell (None) raises
\* AttributeError, a bad text ValueError, both caught
carregar_taxa(cell) ==
    IF cell = NaNCell THEN NaN
    ELSE LET text == ReplaceComma(cell)
         IN IF text = <<>> THEN NaN
            ELSE IF IsDecimal(text) THEN DecimalValue(text) ELSE NaN

(***************************************************************************)
(* Coercion scenario: a column of two cells goes through _to_float or      *)
(* through the try blocks of carregar_dados                                *)
(***************************************************************************)
InitCoerce ==
    /\ PipeIdle /\ StoreIdle /\ MergeIdle
    /\ FetchIdle /\ ConsIdle /\ CdaIdle /\ DbIdle
    /\ \/ raw = NoColumn
       \/ \E first, second \in Cells : raw = Column(<<first, second>>)
       \/ \E second \in Cells : raw = Column(<<LocaleCell, second>>)
    /\ parsed = <<>>
    /\ ppc = "column"

\* df[c] = _to_float(df.get(c))
ToFloat ==
    /\ ppc = "column"
    /\ parsed' = [fn |-> "to_float", out |-> to_float(raw)]
    /\ ppc' = "coerced"
    /\ UNCHANGED raw
    /\ UNCHANGED <<pipeVars, storeVars, mergeVars, fetchVars, consVars, cdaVars, dbVars>>

\* carregar_dados over the rows of the registry, one rate per row
CarregarDados ==
    /\ ppc = "column"
    /\ raw.present
    /\ parsed' = [fn |-> "carregar_dados",
                  out |-> Column([i \in 1..Len(raw.cells) |->
                                     carregar_taxa(raw.cells[i])])]
    /\ ppc' = "coerced"
    /\ UNCHANGED raw
    /\ UNCHANGED <<pipeVars, storeVars, mergeVars, fetchVars, consVars, cdaVars, dbVars>>

CoerceNext ==
    \/ ToFloat
    \/ CarregarDados

SpecCoerce == InitCoerce /\ [][CoerceNext]_vars

\* the cell has a character no number has, more than one decimal mark, a
\* minus sign after its first character, or no digit at all
Unparseable(cell) ==
    \/ \E i \in 1..Len(cell) : cell[i] = "a"
    \/ Cardinality({i \in 1..Len(cell) : cell[i] \in {",", "."}}) > 1
    \/ \E i \in 2..Len(cell) : cell[i] = "-"
    \/ ~\E i \in 1..Len(cell) : cell[i] \in {"0", "1"}

\* C20: coercing a column gives a column of the same length (no cell stops
\* the others from being converted); a missing or empty cell gives null; a
\* cell that is no number after the comma is read as a period gives null;
\* zero comes out only of a cell whose digits are all zeros.
C20_CoercionYieldsNull ==
    (ppc = "coerced" /\ raw.present) =>
      /\ parsed.out.present
      /\ Len(parsed.out.cells) = Len(raw.cells)
      /\ \A i \in 1..Len(raw.cells) :
            LET cell == raw.cells[i]
                result == parsed.out.cells[i]
            IN /\ (cell = NaNCell \/ cell = <<>>) => result = NaN
               /\ (cell # NaNCell /\ Unparseable(cell)) => result = NaN
               /\ (~result.null /\ result.mantissa = 0) =>
                     /\ \E k \in 1..Len(cell) : cell[k] = "0"
                     /\ \A k \in 1..Len(cell) : cell[k] # "1"

\* a cell with a letter gives null and the decimal-comma cell after it is
\* still converted, to one tenth
C20_Witness ==
    /\ ppc = "coerced"
    /\ parsed.fn = "to_float"
    /\ raw = Column(<<(<<"a", "1">>), (<<",", "1">>)>>)
    /\ parsed.out = Column(<<NaN, Number(1, 1)>>)

(***************************************************************************)
(* Registry and portfolio parsers (parsers/rcvm175.py, parsers/cda.py)     *)
(***************************************************************************)
\* the entries of FUNDO_MAPPING, CLASSE_MAPPING and SUBCLASSE_MAPPING that
\* the parsers, the merge and the output preparation read
FUNDO_MAPPING ==
    ("ID_Registro_Fundo" :> "id_fundo") @@ ("CNPJ_Fundo" :> "cnpj")
      @@ ("Situacao" :> "situacao") @@ ("Patrimonio_Liquido" :> "patrimonio_liquido")
CLASSE_MAPPING ==
    ("ID_Registro_Fundo" :> "id_fundo") @@ ("CNPJ_Classe" :> "cnpj_classe")
      @@ ("Publico_Alvo" :> "publico_alvo") @@ ("Classe_ESG" :> "classe_esg")
      @@ ("Patrimonio_Liquido" :> "patrimonio_liquido_classe")
SUBCLASSE_MAPPING ==
    ("ID_Subclasse" :> "id_subclasse") @@ ("ID_Registro_Classe" :> "id_classe")

\* CDA_MAPPING: source columns of the portfolio files and their output names
CDA_MAPPING ==
    ("CNPJ_FUNDO_CLASSE" :> "cnpj") @@ ("TP_APLIC" :> "tipo_aplicacao")
      @@ ("VL_MERC_POS_FINAL" :> "valor_mercado")

STATUS_ACTIVE == "Em Funcionamento Normal"

\* what a parser call ends with: a table, None, or an exception
Parsed(df) == [status |-> "ok", df |-> df]
ParsedNone == [status |-> "none", df |-> NoneDf]
ParseRaises(exception) == [status |-> "raised", exception |-> exception, df |-> NoneDf]

\* df.rename(columns={k: v for k, v in mapping.items() if k in df.columns})
Rename(df, mapping) ==
    LET NewName(c) == IF c \in DOMAIN mapping THEN mapping[c] ELSE c
        cols == {NewName(c) : c \in df.columns}
        Old(n) == CHOOSE c \in df.columns : NewName(c) = n
    IN [columns |-> cols,
        rows |-> [i \in 1..Len(df.rows) |-> [n \in cols |-> df.rows[i][Old(n)]]]]

\* df.get(name)
GetColumn(df, name) ==
    IF name \in df.columns
    THEN Column([i \in 1..Len(df.rows) |-> df.rows[i][name]])
    ELSE NoColumn

\* df[name] = cells
SetColumn(df, name, cells) ==
    [columns |-> df.columns \cup {name},
     rows |-> [i \in 1..Len(df.rows) |->
                 [c \in df.columns \cup {name} |->
                     IF c = name THEN cells[i] ELSE df.rows[i][c]]]]

\* df[name] = _to_float(df.get(name)); assigning None gives a column of nulls
AssignFloat(df, name) ==
    LET converted == to_float(GetColumn(df, name))
    IN SetColumn(df, name,
                 IF converted.present THEN converted.cells
                 ELSE [i \in 1..Len(df.rows) |-> NaN])

\* df[keep_cols]
KeepColumns(df, keep) ==
    [columns |-> df.columns \cap keep,
     rows |-> [i \in 1..Len(df.rows) |->
                 [c \in df.columns \cap keep |-> df.rows[i][c]]]]

\* _parse_fundos on the file found in the extraction directory
parse_fundos(file) ==
    LET df == Rename(file, FUNDO_MAPPING)
    IN IF "situacao" \notin df.columns THEN ParseRaises("KeyError")
       ELSE Parsed(AssignFloat(
                SetColumn(df, "em_funcionamento",
                          [i \in 1..Len(df.rows) |->
                              df.rows[i]["situacao"] = STATUS_ACTIVE]),
                "patrimonio_liquido"))

\* _parse_classes
parse_classes(file) ==
    Parsed(AssignFloat(AssignFloat(AssignFloat(Rename(file, CLASSE_MAPPING),
                "patrimonio_liquido_classe"), "taxa_administracao"),
                "taxa_performance"))

\* _parse_subclasses
parse_subclasses(file) == Parsed(Rename(file, SUBCLASSE_MAPPING))

\* parse_cda on an archive holding one BLC file: rename, keep the mapped
\* columns, then convert the numeric ones
parse_cda_file(file) ==
    Parsed(AssignFloat(AssignFloat(AssignFloat(
                KeepColumns(Rename(file, CDA_MAPPING),
                            {CDA_MAPPING[c] : c \in DOMAIN CDA_MAPPING}),
                "valor_mercado"), "valor_custo"), "quantidade"))

(***************************************************************************)
(* Parser scenario: one file of one record type, holding any subset of     *)
(* the mapped columns and possibly a column no mapping names               *)
(***************************************************************************)
RecordTypes == {"fundos", "classes", "subclasses", "cda"}

MappingOf(type) ==
    CASE type = "fundos" -> FUNDO_MAPPING
      [] type = "classes" -> CLASSE_MAPPING
      [] type = "subclasses" -> SUBCLASSE_MAPPING
      [] type = "cda" -> CDA_MAPPING

\* the source columns whose cells are amounts
AmountColumns == {"Patrimonio_Liquido", "VL_MERC_POS_FINAL"}

\* sample cells: an amount with a decimal comma, a missing one, a bad one
AmountCells == {<<"1", ",", "0">>, NaNCell, <<"a">>}
StatusCells == {STATUS_ACTIVE, "Cancelado"}

\* the cell of a sample row in a source column
SampleCell(c, status, amount) ==
    IF c \in AmountColumns THEN amount
    ELSE IF c = "Situacao" THEN status
    ELSE IF c = "ID_Registro_Fundo" THEN 1
    ELSE IF c = "Publico_Alvo" THEN "Qualificado"
    ELSE IF c = "Classe_ESG" THEN "S"
    ELSE "x"

\* a CSV file with the columns cols and one row
SampleFile(cols, status, amount) ==
    [columns |-> cols,
     rows |-> <<[c \in cols |-> SampleCell(c, status, amount)]>>]

InitParse ==
    /\ PipeIdle /\ StoreIdle /\ MergeIdle
    /\ FetchIdle /\ ConsIdle /\ CdaIdle /\ DbIdle
    /\ \E type \in RecordTypes :
       \E cols \in SUBSET (DOMAIN MappingOf(type) \cup {"Outra_Coluna"}) :
       \E status \in StatusCells : \E amount \in AmountCells :
          /\ cols # {}
          /\ raw = [type |-> type, file |-> SampleFile(cols, status, amount)]
    /\ parsed = <<>>
    /\ ppc = "file"

\* the parser of the record type reads the file
ParseFile ==
    /\ ppc = "file"
    /\ parsed' = CASE raw.type = "fundos" -> parse_fundos(raw.file)
                   [] raw.type = "classes" -> parse_classes(raw.file)
                   [] raw.type = "subclasses" -> parse_subclasses(raw.file)
                   [] raw.type = "cda" -> parse_cda_file(raw.file)
    /\ ppc' = "parsed"
    /\ UNCHANGED raw
    /\ UNCHANGED <<pipeVars, storeVars, mergeVars, fetchVars, consVars, cdaVars, dbVars>>

ParseNext ==
    \/ ParseFile

SpecParse == InitParse /\ [][ParseNext]_vars

\* C19: whatever subset of the mapped columns a file holds, its parser ends
\* without an exception, every mapped column of the file appears under its
\* output name, and an output name whose source column is absent is either
\* not in the table or holds no value.
C19_MissingColumnsTolerated ==
    ppc = "parsed" =>
      /\ parsed.status = "ok"
      /\ \A c \in DOMAIN MappingOf(raw.type) :
            LET name == MappingOf(raw.type)[c]
            IN IF c \in raw.file.columns
               THEN name \in parsed.df.columns /\ c \notin parsed.df.columns
               ELSE name \in parsed.df.columns =>
                       \A i \in 1..Len(parsed.df.rows) :
                          parsed.df.rows[i][name] = NaN

(***************************************************************************)
(* consolidate (src/consolidador/consolidator.py) over parse_rcvm175       *)
(***************************************************************************)
\* RCVM175_URL and the names of RCVM175_FILES
RCVM175_URL == <<"a", "/", "registro_fundo_classe", ".zip">>
RCVM175_FILES ==
    [fundos |-> "registro_fundo.csv", classes |-> "registro_classe.csv",
     subclasses |-> "registro_subclasse.csv"]
RegistryFileNames ==
    {RCVM175_FILES.fundos, RCVM175_FILES.classes, RCVM175_FILES.subclasses}

\* the columns of the two output tables, OUTPUT_COLUMNS_PRINCIPAIS and
\* OUTPUT_COLUMNS_CLASSES
OUTPUT_COLUMNS_PRINCIPAIS ==
    <<"cnpj", "nome_fundo", "tipo_fundo", "situacao", "em_funcionamento", "gestor",
      "administrador", "patrimonio_liquido", "classificacao_anbima", "classe_esg",
      "publico_alvo", "forma_condominio", "exclusivo", "data_registro",
      "data_adaptacao_rcvm175", "codigo_cvm", "cnpj_gestor", "cnpj_administrador">>
OUTPUT_COLUMNS_CLASSES ==
    {"cnpj", "cnpj_classe", "nome_classe", "tipo_classe", "situacao_classe",
     "classificacao_anbima", "classe_esg", "publico_alvo", "forma_condominio",
     "exclusivo", "patrimonio_liquido_classe", "auditor", "custodiante"}

\* content of the three registry files: two funds, one class of the first
\* fund, one subclass of that class
RegistryFile(name) ==
    CASE name = RCVM175_FILES.fundos ->
           [columns |-> DOMAIN FUNDO_MAPPING,
            rows |-> <<[c \in DOMAIN FUNDO_MAPPING |->
                          CASE c = "ID_Registro_Fundo" -> 1
                            [] c = "CNPJ_Fundo" -> "cnpj-1"
                            [] c = "Situacao" -> STATUS_ACTIVE
                            [] c = "Patrimonio_Liquido" -> <<"1", ",", "0">>],
                       [c \in DOMAIN FUNDO_MAPPING |->
                          CASE c = "ID_Registro_Fundo" -> 2
                            [] c = "CNPJ_Fundo" -> "cnpj-2"
                            [] c = "Situacao" -> "Cancelado"
                            [] c = "Patrimonio_Liquido" -> NaNCell]>>]
      [] name = RCVM175_FILES.classes ->
           [columns |-> DOMAIN CLASSE_MAPPING,
            rows |-> <<[c \in DOMAIN CLASSE_MAPPING |->
                          CASE c = "ID_Registro_Fundo" -> 1
                            [] c = "CNPJ_Classe" -> "cnpj-1-a"
                            [] c = "Publico_Alvo" -> "Qualificado"
                            [] c = "Classe_ESG" -> "S"
                            [] c = "Patrimonio_Liquido" -> <<"a">>]>>]
      [] name = RCVM175_FILES.subclasses ->
           [columns |-> DOMAIN SUBCLASSE_MAPPING,
            rows |-> <<[c \in DOMAIN SUBCLASSE_MAPPING |-> 1]>>]

\* answers of the server to the request for the registry archive
RegistryResponses ==
    {OkResponse(ZipArchive(m)) : m \in SUBSET RegistryFileNames}
      \cup {OkResponse(NotAZip)}
      \cup {FailedResponse(k) : k \in FailureKinds}

\* "if not csv_path.exists(): return None", else the parser's result
ParseIfExists(files, name, parser_result) ==
    IF name \in files THEN parser_result ELSE ParsedNone

\* available_cols = [c for c in OUTPUT_COLUMNS_PRINCIPAIS if c in df.columns]
available_cols(df) == SelectSeq(OUTPUT_COLUMNS_PRINCIPAIS, LAMBDA c : c \in df.columns)

\* prepare_principais_output: df[available_cols]
prepare_principais_output(df) == KeepColumns(df, Range(available_cols(df)))

\* prepare_classes_output: the classes with the CNPJ of their fund
prepare_classes_output(fundos, classes) ==
    IF classes = NoneDf \/ IsEmptyDf(classes) THEN Parsed(NoneDf)
    ELSE IF ~({"id_fundo", "cnpj"} \subseteq fundos.columns)
            \/ "id_fundo" \notin classes.columns
    THEN ParseRaises("KeyError")
    ELSE LET Owner(f) == SelectSeq(fundos.rows, LAMBDA r : r["id_fundo"] = f)
             joined == SetColumn(classes, "cnpj",
                          [i \in 1..Len(classes.rows) |->
                              IF Owner(classes.rows[i]["id_fundo"]) = <<>> THEN Null
                              ELSE Owner(classes.rows[i]["id_fundo"])[1]["cnpj"]])
         IN Parsed(KeepColumns(joined, OUTPUT_COLUMNS_CLASSES))

\* the local variables of one run of consolidate
ConsRun(force) ==
    [force |-> force, extract_dir |-> "pending", net |-> FALSE, files |-> {},
     fundos |-> ParsedNone, classes |-> ParsedNone, subclasses |-> ParsedNone,
     principais |-> NoneDf, classes_output |-> NoneDf, written |-> {}]

\* parse_rcvm175(use_cache, force) on the answer of the server: the three
\* tables, or three times None when download_zip returns None
parse_rcvm175(dir, use_cache, force, response) ==
    LET z == download_zip(dir, RCVM175_URL, use_cache, force, response)
        files == IF z.result.status = "path" THEN z.cache[z.result.path].files
                 ELSE {}
    IN [cache |-> z.cache, net |-> z.net, extract_dir |-> z.result.status,
        files |-> files,
        fundos |-> ParseIfExists(files, RCVM175_FILES.fundos,
                      parse_fundos(RegistryFile(RCVM175_FILES.fundos))),
        classes |-> ParseIfExists(files, RCVM175_FILES.classes,
                      parse_classes(RegistryFile(RCVM175_FILES.classes))),
        subclasses |-> ParseIfExists(files, RCVM175_FILES.subclasses,
                      parse_subclasses(RegistryFile(RCVM175_FILES.subclasses)))]

\* the files of the output directory
PrincipaisFile == "fundos_principais.csv"
ClassesFile == "fundos_classes.csv"

InitCons ==
    /\ PipeIdle /\ StoreIdle /\ MergeIdle
    /\ FetchIdle /\ ParseIdle /\ CdaIdle /\ DbIdle
    /\ cons = ConsRun(FALSE)
    /\ outputs = {}
    /\ cpc = "idle"

\* consolidate(months, force) is called
Consolidate ==
    /\ cpc = "idle"
    /\ \E force \in BOOLEAN : cons' = ConsRun(force)
    /\ cpc' = "start"
    /\ UNCHANGED outputs
    /\ UNCHANGED <<pipeVars, storeVars, mergeVars, fetchVars, parseVars, cdaVars, dbVars>>

\* Step 1: fundos_df, classes_df, subclasses_df = parse_rcvm175(...)
ParseRcvm175 ==
    /\ cpc = "start"
    /\ \E response \in RegistryResponses :
          LET p == parse_rcvm175(cache, ~cons.force, cons.force, response)
              raised == \/ p.extract_dir = "raised"
                        \/ "raised" \in {p.fundos.status, p.classes.status,
                                         p.subclasses.status}
          IN /\ cache' = p.cache
             /\ cons' = [cons EXCEPT !.extract_dir = p.extract_dir,
                                     !.net = p.net, !.files = p.files,
                                     !.fundos = p.fundos, !.classes = p.classes,
                                     !.subclasses = p.subclasses]
             /\ cpc' = IF raised THEN "crashed" ELSE "parsed"
    /\ UNCHANGED <<now, ticks, fetched, fpc, outputs>>
    /\ UNCHANGED <<pipeVars, storeVars, mergeVars, parseVars, cdaVars, dbVars>>

\* the check is left out: the run goes on whatever parse_rcvm175 returned
SkipRequireFundos ==
    /\ cpc = "parsed"
    /\ cpc' = "loaded"
    /\ UNCHANGED <<cons, outputs>>
    /\ UNCHANGED <<pipeVars, storeVars, mergeVars, fetchVars, parseVars, cdaVars, dbVars>>

\* "if fundos_df is None: raise RuntimeError(...)"
RequireFundos ==
    /\ cpc = "parsed"
    /\ cpc' = IF cons.fundos.status = "none" THEN "fatal" ELSE "loaded"
    /\ UNCHANGED <<cons, outputs>>
    /\ UNCHANGED <<pipeVars, storeVars, mergeVars, fetchVars, parseVars, cdaVars, dbVars>>

\* Steps 2 and 3: merge, then prepare the two output tables
MergeAndPrepare ==
    /\ cpc = "loaded"
    /\ LET merged_df == merge_fund_with_primary_class(cons.fundos.df, cons.classes.df)
           classes_output == prepare_classes_output(cons.fundos.df, cons.classes.df)
       IN /\ cons' = [cons EXCEPT
                        !.principais = prepare_principais_output(merged_df),
                        !.classes_output = classes_output.df]
          /\ cpc' = IF classes_output.status = "raised" THEN "crashed"
                    ELSE "prepared"
    /\ UNCHANGED outputs
    /\ UNCHANGED <<pipeVars, storeVars, mergeVars, fetchVars, parseVars, cdaVars, dbVars>>

\* Step 4: export_principais(principais_df) writes fundos_principais.csv
ExportPrincipais ==
    /\ cpc = "prepared"
    /\ outputs' = outputs \cup {PrincipaisFile}
    /\ cons' = [cons EXCEPT !.written = @ \cup {PrincipaisFile}]
    /\ cpc' = "exported"
    /\ UNCHANGED <<pipeVars, storeVars, mergeVars, fetchVars, parseVars, cdaVars, dbVars>>

\* export_classes(classes_output_df) writes fundos_classes.csv
ExportClasses ==
    /\ cpc = "exported"
    /\ outputs' = outputs \cup {ClassesFile}
    /\ cons' = [cons EXCEPT !.written = @ \cup {ClassesFile}]
    /\ cpc' = "done"
    /\ UNCHANGED <<pipeVars, storeVars, mergeVars, fetchVars, parseVars, cdaVars, dbVars>>

\* consolidate returns the two paths, or its exception reaches the caller
ConsolidateEnds ==
    /\ cpc \in {"done", "fatal", "crashed"}
    /\ cpc' = "idle"
    /\ UNCHANGED <<cons, outputs>>
    /\ UNCHANGED <<pipeVars, storeVars, mergeVars, fetchVars, parseVars, cdaVars, dbVars>>

ConsNext ==
    \/ Consolidate
    \/ ParseRcvm175
    \/ RequireFundos
    \/ MergeAndPrepare
    \/ ExportPrincipais
    \/ ExportClasses
    \/ ConsolidateEnds

SpecConsolidate == InitCons /\ [][ConsNext]_vars

(***************************************************************************)
(* Properties of consolidate                                               *)
(***************************************************************************)
\* the run in progress, or the last one, got no registry directory
RegistryFailed == cons.extract_dir = "none"

\* C16: when the registry archive cannot be retrieved (download_zip returns
\* None), the run stops at the fatal error right after parse_rcvm175: the
\* next step of the run is the RuntimeError, the merge and the export steps
\* are never reached, and the run writes no output file.
C16_RegistryFailureAborts ==
    /\ [](RegistryFailed =>
             /\ cpc \in {"parsed", "fatal", "idle"}
             /\ cons.written = {})
    /\ [][(RegistryFailed /\ cpc = "parsed") => cpc' = "fatal"]_vars

C16_Witness ==
    /\ RegistryFailed
    /\ cons.net
    /\ cpc = "fatal"
    /\ cons.written = {}

\* exactly one of the three registry files is missing in the directory
\* extracted from an archive retrieved on this run
OneFileMissing ==
    /\ cons.extract_dir = "path"
    /\ cons.net
    /\ Cardinality(RegistryFileNames \ cons.files) = 1

\* C18: with exactly one registry file missing (fund, class or subclass),
\* consolidate is not aborted: the run never ends in the fatal error or in
\* another exception.
C18_OneMissingFileContinues ==
    OneFileMissing => cpc \notin {"fatal", "crashed"}

(***************************************************************************)
(* Monthly portfolio archives: parse_cda and parse_cda_multiple            *)
(* (src/consolidador/parsers/cda.py)                                       *)
(***************************************************************************)
MaxMonths == 2

\* the monthly periods, most recent first, in YYYYMM form
RecentPeriods ==
    <<<<"2", "0", "2", "4", "0", "1">>, <<"2", "0", "2", "3", "1", "2">>,
      <<"2", "0", "2", "3", "1", "1">>>>

\* get_cda_periods(num_months): the num_months most recent periods
get_cda_periods(num_months) == SubSeq(RecentPeriods, 1, num_months)

\* CDA_URL_TEMPLATE.format(yyyymm=yyyymm)
CDA_URL_TEMPLATE(yyyymm) == <<"a", "/", "cda_fi_">> \o yyyymm \o <<".zip">>

\* CDA_FILES: the position files of one period's archive
CDA_FILES(yyyymm) ==
    {<<"cda_fi_BLC_1_">> \o yyyymm, <<"cda_fi_BLC_2_">> \o yyyymm}

\* sheet_name = f"{yyyymm[:4]}-{yyyymm[4:]}"
sheet_name(yyyymm) ==
    SubSeq(yyyymm, 1, 4) \o <<"-">> \o SubSeq(yyyymm, 5, Len(yyyymm))

\* what the server holds in the position files of a period: files with one
\* position row, files with the header line alone, files that cannot be read
FileKinds == {"rows", "header_only", "unreadable"}

\* the table pd.read_csv gives for a readable position file
PositionFile(yyyymm, kind) ==
    [columns |-> {"CNPJ_FUNDO_CLASSE", "VL_MERC_POS_FINAL", "DENOM_SOCIAL"},
     rows |-> IF kind = "rows"
              THEN <<[c \in {"CNPJ_FUNDO_CLASSE", "VL_MERC_POS_FINAL", "DENOM_SOCIAL"} |->
                        IF c = "VL_MERC_POS_FINAL" THEN <<"1", ",", "0">> ELSE yyyymm]>>
              ELSE <<>>]

\* lines 58-72 for one readable file: the renamed table with the mapped
\* columns
ReadPositionFile(yyyymm, kind) ==
    KeepColumns(Rename(PositionFile(yyyymm, kind), CDA_MAPPING),
                {CDA_MAPPING[c] : c \in DOMAIN CDA_MAPPING})

\* pd.concat(all_dfs, ignore_index=True)
Concat(all_dfs) ==
    LET cols == UNION {all_dfs[i].columns : i \in 1..Len(all_dfs)}
        Widen(df) == MapSeq(df.rows, LAMBDA r :
                        [c \in cols |-> IF c \in df.columns THEN r[c] ELSE Null])
    IN [columns |-> cols,
        rows |-> FlatMap(all_dfs, LAMBDA df : Widen(df))]

\* parse_cda(yyyymm, use_cache, force): kind is what the files of the
\* period's directory hold
parse_cda(dir, yyyymm, use_cache, force, response, kind) ==
    LET z == download_zip(dir, CDA_URL_TEMPLATE(yyyymm), use_cache, force, response)
        files == IF z.result.status = "path" THEN z.cache[z.result.path].files
                 ELSE {}
        present == CDA_FILES(yyyymm) \cap files
        \* a file that cannot be read raises inside the try and is skipped
        appended == IF kind = "unreadable" THEN 0 ELSE Cardinality(present)
        all_dfs == [i \in 1..appended |-> ReadPositionFile(yyyymm, kind)]
        result == IF z.result.status = "raised"
                  THEN ParseRaises(z.result.exception)
                  ELSE IF z.result.status = "none" \/ all_dfs = <<>>
                  THEN ParsedNone
                  ELSE Parsed(AssignFloat(AssignFloat(AssignFloat(Concat(all_dfs),
                              "valor_mercado"), "valor_custo"), "quantidade"))
    IN [result |-> result, cache |-> z.cache, net |-> z.net,
        extract_dir |-> z.result.status]

\* "if df is not None and not df.empty" is replaced by "if True"
KeepsEveryPeriod(p) == TRUE

\* "if df is not None and not df.empty"
KeepsPeriod(p) == p.status = "ok" /\ ~IsEmptyDf(p.df)

\* the local variables of one call of parse_cda_multiple; fate records what
\* happened to each period already handled
CdaRun(num_months, use_cache, force) ==
    [periods |-> get_cda_periods(num_months), use_cache |-> use_cache,
     force |-> force, i |-> 1, result |-> EmptyMap, fate |-> EmptyMap]

\* the archives the server can answer with for a period: none of the position
\* files, one, or both
CdaResponses(yyyymm) ==
    {OkResponse(ZipArchive(m)) : m \in SUBSET CDA_FILES(yyyymm)}
      \cup {OkResponse(NotAZip)}
      \cup {FailedResponse(k) : k \in FailureKinds}

InitCda ==
    /\ PipeIdle /\ StoreIdle /\ MergeIdle
    /\ FetchIdle /\ ParseIdle /\ ConsIdle /\ DbIdle
    /\ \E server \in [Range(RecentPeriods) -> FileKinds] :
          cda = [server |-> server, run |-> CdaRun(0, TRUE, FALSE)]
    /\ dpc = "idle"

\* parse_cda_multiple(use_cache, force, num_months) is called
ParseCdaMultiple ==
    /\ dpc = "idle"
    /\ \E num_months \in 1..MaxMonths : \E use_cache, force \in BOOLEAN :
          cda' = [cda EXCEPT !.run = CdaRun(num_months, use_cache, force)]
    /\ dpc' = "loop"
    /\ UNCHANGED <<pipeVars, storeVars, mergeVars, fetchVars, parseVars, consVars, dbVars>>

\* one iteration of "for yyyymm in periods"
ParseCdaPeriod ==
    /\ dpc = "loop"
    /\ cda.run.i <= Len(cda.run.periods)
    /\ \E response \in CdaResponses(cda.run.periods[cda.run.i]) :
          LET yyyymm == cda.run.periods[cda.run.i]
              p == parse_cda(cache, yyyymm, cda.run.use_cache, cda.run.force,
                             response, cda.server[yyyymm])
          IN /\ cache' = p.cache
             /\ cda' = [cda EXCEPT
                   !.run.i = @ + 1,
                   !.run.fate = Put(@, yyyymm,
                                    [extract_dir |-> p.extract_dir, net |-> p.net,
                                     parsed |-> p.result]),
                   !.run.result = IF p.result.status # "raised"
                                     /\ KeepsPeriod(p.result)
                                  THEN Put(@, sheet_name(yyyymm), p.result.df)
                                  ELSE @]
             /\ dpc' = IF p.result.status = "raised" THEN "crashed" ELSE "loop"
    /\ UNCHANGED <<now, ticks, fetched, fpc>>
    /\ UNCHANGED <<pipeVars, storeVars, mergeVars, parseVars, consVars, dbVars>>

\* "return result", or the exception reaches the caller: the locals of the
\* call are gone
ParseCdaMultipleEnds ==
    /\ \/ dpc = "loop" /\ cda.run.i > Len(cda.run.periods)
       \/ dpc = "crashed"
    /\ dpc' = "idle"
    /\ cda' = [cda EXCEPT !.run = CdaRun(0, TRUE, FALSE)]
    /\ UNCHANGED <<pipeVars, storeVars, mergeVars, fetchVars, parseVars, consVars, dbVars>>

CdaNext ==
    \/ ParseCdaMultiple
    \/ ParseCdaPeriod
    \/ ParseCdaMultipleEnds

SpecCda == InitCda /\ [][CdaNext]_vars

(***************************************************************************)
(* Properties of parse_cda_multiple                                        *)
(***************************************************************************)
\* the periods the call has handled so far
HandledPeriods == DOMAIN cda.run.fate

\* download_zip returned None for the period's archive
ArchiveFailed(yyyymm) == cda.run.fate[yyyymm].extract_dir = "none"

\* the period's archive was obtained and parse_cda returned a table
RetrievedAndParsed(yyyymm) ==
    /\ cda.run.fate[yyyymm].extract_dir = "path"
    /\ cda.run.fate[yyyymm].parsed.status = "ok"

HasEntry(yyyymm) == sheet_name(yyyymm) \in DOMAIN cda.run.result

NoCdaException ==
    /\ dpc # "crashed"
    /\ \A yyyymm \in HandledPeriods : cda.run.fate[yyyymm].parsed.status # "raised"

\* C17 as stated: when a period's archive cannot be retrieved, the result
\* has an entry for every other handled period whose archive was retrieved
\* and parsed, none for the failed period, and nothing is raised.
C17_Original ==
    (\E failed \in HandledPeriods : ArchiveFailed(failed)) =>
        /\ NoCdaException
        /\ \A yyyymm \in HandledPeriods :
              /\ ArchiveFailed(yyyymm) => ~HasEntry(yyyymm)
              /\ RetrievedAndParsed(yyyymm) => HasEntry(yyyymm)

\* C17 (amended): when a period's archive cannot be retrieved, the result
\* has an entry, holding the parsed table, for every other handled period
\* whose archive was retrieved and parsed into at least one position row,
\* and for no other period (neither the failed one nor one whose table has
\* no row), and nothing is raised.
C17_FailedPeriodSkipped ==
    (\E failed \in HandledPeriods : ArchiveFailed(failed)) =>
        /\ NoCdaException
        /\ \A yyyymm \in HandledPeriods :
              /\ ArchiveFailed(yyyymm) => ~HasEntry(yyyymm)
              /\ HasEntry(yyyymm) <=>
                    /\ RetrievedAndParsed(yyyymm)
                    /\ cda.run.fate[yyyymm].parsed.df.rows # <<>>
              /\ HasEntry(yyyymm) =>
                    cda.run.result[sheet_name(yyyymm)] = cda.run.fate[yyyymm].parsed.df
        /\ \A sheet \in DOMAIN cda.run.result :
              \E yyyymm \in HandledPeriods : sheet = sheet_name(yyyymm)

C17_Witness ==
    /\ dpc = "loop"
    /\ cda.run.i > Len(cda.run.periods)
    /\ \E failed, other \in HandledPeriods :
          /\ ArchiveFailed(failed)
          /\ cda.run.fate[failed].net
          /\ RetrievedAndParsed(other)
          /\ HasEntry(other)
          /\ ~HasEntry(failed)

(***************************************************************************)
(* Locale-formatted numbers                                                *)
(***************************************************************************)
\* C21: the text "1.234,56" is coerced to 1234.56 (the digits 123456 with
\* two decimals), by _to_float and by the rate parsing of carregar_dados.
C21_LocaleNumberCoerced ==
    (ppc = "coerced" /\ raw.present /\ raw.cells[1] = LocaleCell) =>
        parsed.out.cells[1] = Number(123456, 2)

(***************************************************************************)
(* The fund database of analisador_fundos.py (BancoDadosFundos; the code   *)
(* of FundDatabase in fund_analyzer.py is the same with English names)     *)
(***************************************************************************)
MaxInserts == 3

\* None of Python and NULL of SQLite
PyNone == [none |-> TRUE]
Some(x) == [val |-> x]

\* the columns of table fundos kept here: the key, the five fields of
\* campos_rastrear and two of the others
CamposFundo ==
    {"cnpj", "nome", "situacao", "taxa_admin", "taxa_performance", "gestor",
     "administrador", "patrimonio_liquido"}

\* the keys of campos_rastrear and the name as well
CamposRastrearComNome ==
    <<"situacao", "taxa_admin", "taxa_performance", "gestor", "administrador", "nome">>

\* the keys of campos_rastrear, in the order of the dict
campos_rastrear ==
    <<"situacao", "taxa_admin", "taxa_performance", "gestor", "administrador">>

CamposNumericos == {"taxa_admin", "taxa_performance", "patrimonio_liquido"}

\* str(value) of a cell of the given column
Str(campo, value) ==
    IF value = PyNone THEN "None"
    ELSE IF campo \in CamposNumericos THEN ToString(value.val) \o ".0"
    ELSE value.val

\* one row of fundos_historico
EntradaHistorico(cnpj, campo, val_antigo, val_novo) ==
    [cnpj |-> cnpj, tipo_mudanca |-> "ATUALIZACAO", campo |-> campo,
     valor_anterior |-> Str(campo, val_antigo), valor_novo |-> Str(campo, val_novo)]

\* _rastrear_mudancas(novo_fundo, dados_antigos): the rows it inserts
rastrear_mudancas(novo_fundo, dados_antigos) ==
    LET diferentes == SelectSeq(campos_rastrear,
                         LAMBDA campo : dados_antigos[campo] # novo_fundo[campo])
    IN MapSeq(diferentes, LAMBDA campo :
           EntradaHistorico(novo_fundo["cnpj"], campo, dados_antigos[campo],
                            novo_fundo[campo]))

\* SELECT * FROM fundos WHERE cnpj = ?: the positions of the matching rows
PosicoesDe(tabela, cnpj) == {i \in 1..Len(tabela) : tabela[i]["cnpj"] = cnpj}

\* the history is rewritten with the rows of the last call
SubstituiHistorico(historico, entradas) == entradas

\* INSERT INTO fundos_historico, once per row
AcrescentaHistorico(historico, entradas) == historico \o entradas

\* inserir_fundo(fundo): UPDATE of the stored row after tracking the changes,
\* or INSERT of a new row
inserir_fundo(tabela, historico, fundo) ==
    IF PosicoesDe(tabela, fundo["cnpj"]) # {}
    THEN LET i == CHOOSE k \in PosicoesDe(tabela, fundo["cnpj"]) : TRUE
         IN [fundos |-> [tabela EXCEPT ![i] = fundo],
             historico |-> AcrescentaHistorico(historico,
                               rastrear_mudancas(fundo, tabela[i])),
             existente |-> Some(tabela[i])]
    ELSE [fundos |-> Append(tabela, fundo),
          historico |-> historico,
          existente |-> PyNone]

(***************************************************************************)
(* Fund database scenario: funds of the registry are inserted and          *)
(* re-inserted with changed fields                                         *)
(***************************************************************************)
\* sample values of each column; the first is the value of the base row
ValoresDe(campo) ==
    CASE campo = "nome" -> <<Some("FUNDO A"), Some("FUNDO B")>>
      [] campo = "situacao" -> <<Some("EM FUNCIONAMENTO NORMAL"), Some("CANCELADA")>>
      [] campo = "taxa_admin" -> <<PyNone, Some(1)>>
      [] campo = "taxa_performance" -> <<PyNone, Some(20)>>
      [] campo = "gestor" -> <<PyNone, Some("GESTORA")>>
      [] campo = "administrador" -> <<Some("ADMIN A"), Some("ADMIN B")>>
      [] campo = "patrimonio_liquido" -> <<PyNone, Some(100)>>

\* the Fundo object with the second sample value in the columns of outros
\* and the first in the others
Fundo(cnpj, outros) ==
    [campo \in CamposFundo |->
        IF campo = "cnpj" THEN cnpj
        ELSE ValoresDe(campo)[IF campo \in outros THEN 2 ELSE 1]]

\* the funds carregar_dados can hand to inserir_fundo: the first fund with
\* none, one or all of its tracked fields and at most one other field
\* changed, the second fund with its status changed or not
FundosAmostra ==
    {Fundo("c1", t \cup o) :
        t \in {{}, Range(campos_rastrear)} \cup {{c} : c \in Range(campos_rastrear)},
        o \in {{}, {"nome"}, {"patrimonio_liquido"}}}
      \cup {Fundo("c2", {}), Fundo("c2", {"situacao"})}

InitLedger ==
    /\ PipeIdle /\ StoreIdle /\ MergeIdle
    /\ FetchIdle /\ ParseIdle /\ ConsIdle /\ CdaIdle
    /\ tabela_fundos = <<>>
    /\ fundos_historico = <<>>
    /\ resultado = [fn |-> "none", chamadas |-> 0]
    /\ lpc = "open"
    /\ changes_log = <<>>
    /\ log_calls = 0

\* self.banco.inserir_fundo(fundo)
InserirFundo ==
    /\ lpc = "open"
    /\ resultado.chamadas < MaxInserts
    /\ \E fundo \in FundosAmostra :
          LET r == inserir_fundo(tabela_fundos, fundos_historico, fundo)
          IN /\ tabela_fundos' = r.fundos
             /\ fundos_historico' = r.historico
             /\ resultado' = [fn |-> "inserir_fundo",
                              chamadas |-> resultado.chamadas + 1,
                              fundo |-> fundo, existente |-> r.existente,
                              antes |-> Len(fundos_historico)]
    /\ UNCHANGED <<lpc, changes_log, log_calls>>
    /\ UNCHANGED <<pipeVars, storeVars, mergeVars, fetchVars, parseVars, consVars, cdaVars>>

LedgerNext ==
    \/ InserirFundo

SpecLedger == InitLedger /\ [][LedgerNext]_vars

(***************************************************************************)
(* Properties of the fund-history ledger                                   *)
(***************************************************************************)
\* the rows the last inserir_fundo call appended
Acrescentadas ==
    SubSeq(fundos_historico, resultado.antes + 1, Len(fundos_historico))

\* C22: when an existing fund is re-inserted, the call appends exactly one
\* history row (cnpj, field, old value, new value) for each of situacao,
\* taxa_admin, taxa_performance, gestor and administrador whose new value
\* differs from the stored one, and no row for any other field, whatever
\* else changed.
C22_OnlyWatchedFieldsTracked ==
    (resultado.fn = "inserir_fundo" /\ resultado.existente # PyNone) =>
        LET antigo == resultado.existente.val
            novo == resultado.fundo
        IN /\ \A campo \in Range(campos_rastrear) :
                 LET linhas == {i \in 1..Len(Acrescentadas) :
                                   Acrescentadas[i].campo = campo}
                 IN IF antigo[campo] # novo[campo]
                    THEN /\ Cardinality(linhas) = 1
                         /\ \A i \in linhas :
                               /\ Acrescentadas[i].cnpj = novo["cnpj"]
                               /\ Acrescentadas[i].valor_anterior = Str(campo, antigo[campo])
                               /\ Acrescentadas[i].valor_novo = Str(campo, novo[campo])
                    ELSE linhas = {}
           /\ \A i \in 1..Len(Acrescentadas) :
                 Acrescentadas[i].campo \in
                    {"situacao", "taxa_admin", "taxa_performance", "gestor",
                     "administrador"}

\* an existing fund comes back with a tracked field and its name changed:
\* one row, for the tracked field
C22_Witness ==
    /\ resultado.fn = "inserir_fundo"
    /\ resultado.existente # PyNone
    /\ resultado.existente.val["nome"] # resultado.fundo["nome"]
    /\ resultado.existente.val["gestor"] # resultado.fundo["gestor"]
    /\ resultado.existente.val["situacao"] = resultado.fundo["situacao"]
    /\ Len(Acrescentadas) = 1
    /\ Acrescentadas[1].campo = "gestor"

\* C23: the history is append-only: every inserir_fundo call leaves the rows
\* already there in place and unchanged (the new history extends the old
\* one), and the first insertion of a fund appends no row.
C23_HistoryAppendOnly ==
    /\ [][/\ Len(fundos_historico') >= Len(fundos_historico)
          /\ SubSeq(fundos_historico', 1, Len(fundos_historico)) = fundos_historico]_vars
    /\ []((resultado.fn = "inserir_fundo" /\ resultado.existente = PyNone) =>
             Len(fundos_historico) = resultado.antes)

\* a second fund is inserted for the first time while the history holds the
\* rows of an earlier change of the first fund
C23_Witness ==
    /\ resultado.fn = "inserir_fundo"
    /\ resultado.existente = PyNone
    /\ resultado.antes > 0
    /\ Len(fundos_historico) = resultado.antes
    /\ Len(tabela_fundos) = 2

(***************************************************************************)
(* comparar_fundos over buscar_fundos (compare_funds over search_funds in  *)
(* fund_analyzer.py)                                                       *)
(***************************************************************************)
MaxLista == 2

\* the filter keys buscar_fundos reads that are columns kept here; 'gestor'
\* is a LIKE pattern, taken here as the whole name
FiltrosLidos == {"situacao", "gestor"}

\* buscar_fundos(filtros): the query starts as "WHERE 1=1" and gets one
\* condition per key it knows; any other key of filtros is not read. Rows
\* come back in rowid order, the order of insertion
buscar_fundos(tabela, filtros) ==
    SelectSeq(tabela, LAMBDA linha :
        \A chave \in DOMAIN filtros \cap FiltrosLidos :
            linha[chave] = Some(filtros[chave]))

\* comparar_fundos(lista_cnpj)
comparar_fundos(tabela, lista_cnpj) ==
    LET fundos_encontrados ==
            FlatMap(lista_cnpj, LAMBDA cnpj :
                LET resultados == buscar_fundos(tabela, [cnpj |-> cnpj])
                IN IF resultados # <<>> THEN <<resultados[1]>> ELSE <<>>)
    IN IF fundos_encontrados = <<>>
       THEN [erro |-> TRUE, fundos |-> <<>>]
       ELSE [erro |-> FALSE, fundos |-> fundos_encontrados]

\* the CNPJs a caller asks for: the two funds of the registry and one that
\* is never stored
CnpjsPedidos == {"c1", "c2", "c3"}

\* analisador.comparar_fundos(lista_cnpj)
CompararFundos ==
    /\ lpc = "open"
    /\ \E n \in 0..MaxLista : \E lista_cnpj \in [1..n -> CnpjsPedidos] :
          resultado' = [fn |-> "comparar_fundos", chamadas |-> resultado.chamadas,
                        lista_cnpj |-> lista_cnpj,
                        retorno |-> comparar_fundos(tabela_fundos, lista_cnpj)]
    /\ UNCHANGED <<tabela_fundos, fundos_historico, lpc, changes_log, log_calls>>
    /\ UNCHANGED <<pipeVars, storeVars, mergeVars, fetchVars, parseVars, consVars, cdaVars>>

CompareNext ==
    \/ InserirFundo
    \/ CompararFundos

SpecCompare == InitLedger /\ [][CompareNext]_vars

\* the requested CNPJs that are stored, in request order
PedidosGuardados ==
    SelectSeq(resultado.lista_cnpj, LAMBDA cnpj : PosicoesDe(tabela_fundos, cnpj) # {})

\* C26: comparar_fundos returns, in request order, the stored row of each
\* requested CNPJ that is in the database and nothing for the others, and
\* the not-found error exactly when none of the requested CNPJs is stored.
C26_CompareReturnsRequestedFunds ==
    resultado.fn = "comparar_fundos" =>
        /\ resultado.retorno.erro <=> PedidosGuardados = <<>>
        /\ Len(resultado.retorno.fundos) = Len(PedidosGuardados)
        /\ \A i \in 1..Len(PedidosGuardados) :
              /\ resultado.retorno.fundos[i]["cnpj"] = PedidosGuardados[i]
              /\ \E k \in PosicoesDe(tabela_fundos, PedidosGuardados[i]) :
                    resultado.retorno.fundos[i] = tabela_fundos[k]

(***************************************************************************)
(* Output preparation scenario: prepare_principais_output on merged tables *)
(* with and without the optional columns                                   *)
(***************************************************************************)
\* the columns merge_fund_with_primary_class adds from the class table: a
\* merged table has none of them when the class file is missing or empty,
\* and only those the class file holds otherwise
ClassLevelColumns == Range(AggColumns)

\* columns of the merged table that are no output columns
ExtraColumns == {"id_fundo", "diretor", "data_constituicao"}

InitPrepare ==
    /\ PipeIdle /\ StoreIdle /\ MergeIdle
    /\ FetchIdle /\ ConsIdle /\ CdaIdle /\ DbIdle
    /\ \E missing \in SUBSET ClassLevelColumns : \E extra \in SUBSET ExtraColumns :
          LET cols == (Range(OUTPUT_COLUMNS_PRINCIPAIS) \ missing) \cup extra
          IN raw = [columns |-> cols, rows |-> <<[c \in cols |-> c]>>]
    /\ parsed = <<>>
    /\ ppc = "merged"

\* principais_df = prepare_principais_output(merged_df)
PreparePrincipais ==
    /\ ppc = "merged"
    /\ parsed' = [fn |-> "prepare_principais_output", order |-> available_cols(raw),
                  df |-> prepare_principais_output(raw)]
    /\ ppc' = "prepared"
    /\ UNCHANGED raw
    /\ UNCHANGED <<pipeVars, storeVars, mergeVars, fetchVars, consVars, cdaVars, dbVars>>

PrepareNext ==
    \/ PreparePrincipais

SpecPrepare == InitPrepare /\ [][PrepareNext]_vars

\* C24: the fund view has exactly the columns of OUTPUT_COLUMNS_PRINCIPAIS,
\* in that order, for every merged table.
C24_FixedOutputColumns ==
    ppc = "prepared" =>
        /\ parsed.order = OUTPUT_COLUMNS_PRINCIPAIS
        /\ parsed.df.columns = Range(OUTPUT_COLUMNS_PRINCIPAIS)

(***************************************************************************)
(* Resource-level classification                                           *)
(***************************************************************************)
\* the datasets of the previous snapshot as detect_changes reads them
PrevDatasets ==
    IF NoPreviousState(previous_state) THEN EmptyMap ELSE previous_state.datasets

\* how many items of a resource bucket name resource r of dataset d
CountNewResource(d, r) ==
    Cardinality({i \in 1..Len(changes.new_resources) :
        /\ changes.new_resources[i].dataset_id = d
        /\ changes.new_resources[i].resource.id = r})
CountModifiedResource(d, r) ==
    Cardinality({i \in 1..Len(changes.modified_resources) :
        /\ changes.modified_resources[i].dataset_id = d
        /\ changes.modified_resources[i].resource.id = r})
CountDeletedResource(d, r) ==
    Cardinality({i \in 1..Len(changes.deleted_resources) :
        /\ changes.deleted_resources[i].dataset_id = d
        /\ changes.deleted_resources[i].resource_id = r})

\* last_modified of resource r in the current entry of dataset d
CurrentLastModified(d, r) ==
    LET i == CHOOSE k \in 1..Len(all_data[d].resources) : all_data[d].resources[k].id = r
    IN all_data[d].resources[i].last_modified

\* C25: for every dataset in both snapshots, a resource is reported once as
\* new iff its id is only in the current entry, once as modified iff it is in
\* both with a different last_modified, once as deleted iff it is only in the
\* previous entry, and not at all otherwise; no resource of a dataset that is
\* new or deleted is in any resource bucket.
C25_ResourceClassification ==
    (pc = "detected") =>
        \A d \in DatasetIds : \A r \in ResourceIds :
            LET both == d \in DOMAIN all_data /\ d \in DOMAIN PrevDatasets
                inCur == both /\ r \in CurrentResourceIds(all_data[d])
                inPrev == both /\ r \in DOMAIN PrevDatasets[d].resources
            IN /\ CountNewResource(d, r) =
                     IF both /\ inCur /\ ~inPrev THEN 1 ELSE 0
               /\ CountModifiedResource(d, r) =
                     IF both /\ inCur /\ inPrev
                        /\ CurrentLastModified(d, r)
                              # PrevDatasets[d].resources[r].last_modified
                     THEN 1 ELSE 0
               /\ CountDeletedResource(d, r) =
                     IF both /\ ~inCur /\ inPrev THEN 1 ELSE 0

\* one dataset is in both snapshots and lost its resource, the other is new
\* and holds a resource that no bucket lists
C25_Witness ==
    /\ pc = "detected"
    /\ Len(changes.deleted_resources) = 1
    /\ changes.new_resources = <<>>
    /\ \E d \in DOMAIN all_data :
          /\ d \notin DOMAIN PrevDatasets
          /\ all_data[d].resources # <<>>

\* C29: in a run with a previous snapshot, for every dataset that is on the
\* portal and in the snapshot, a resource whose last_modified on the portal
\* differs from the stored one is in modified_resources, a resource added on
\* the portal is in new_resources and a resource removed from it is in
\* deleted_resources, whether or not the dataset's metadata_modified changed.
C29_ResourceChangesSeen ==
    (pc = "detected" /\ ~NoPreviousState(previous_state)) =>
        \A d \in DOMAIN source \cap DOMAIN PrevDatasets : \A r \in ResourceIds :
            LET onPortal == r \in DOMAIN source[d].resources
                inPrev == r \in DOMAIN PrevDatasets[d].resources
            IN /\ (onPortal /\ inPrev
                     /\ source[d].resources[r] # PrevDatasets[d].resources[r].last_modified)
                  => CountModifiedResource(d, r) = 1
               /\ (onPortal /\ ~inPrev) => CountNewResource(d, r) = 1
               /\ (~onPortal /\ inPrev) => CountDeletedResource(d, r) = 1

(***************************************************************************)
(* Monthly URLs: get_monthly_urls and get_available_monthly_urls           *)
(* (src/consolidador/downloader.py)                                        *)
(***************************************************************************)
MaxMonthsBack == 3

\* the calendar: days are counted from January 1st of FirstYear (day 1)
FirstYear == 2023
IsLeap(y) == (y % 4 = 0 /\ y % 100 # 0) \/ y % 400 = 0
DaysInMonth(y, m) ==
    IF m = 2 THEN (IF IsLeap(y) THEN 29 ELSE 28)
    ELSE IF m \in {4, 6, 9, 11} THEN 30 ELSE 31
DaysInYear(y) == IF IsLeap(y) THEN 366 ELSE 365

\* the date n days into the calendar that starts with month m of year y
RECURSIVE DateFrom(_, _, _)
DateFrom(y, m, n) ==
    IF n <= DaysInMonth(y, m) THEN [year |-> y, month |-> m, day |-> n]
    ELSE IF m = 12 THEN DateFrom(y + 1, 1, n - DaysInMonth(y, m))
    ELSE DateFrom(y, m + 1, n - DaysInMonth(y, m))

DateOf(ordinal) == DateFrom(FirstYear, 1, ordinal)

\* datetime.now(): any day of the year after FirstYear
Todays ==
    (DaysInYear(FirstYear) + 1)..(DaysInYear(FirstYear) + DaysInYear(FirstYear + 1))

\* today - timedelta(days=days)
MinusDays(ordinal, days) == ordinal - days

DecimalDigit(n) == <<"0", "1", "2", "3", "4", "5", "6", "7", "8", "9">>[n + 1]

\* the text of year and month in YYYYMM form
YearMonthText(y, m) ==
    <<DecimalDigit(y \div 1000), DecimalDigit((y \div 100) % 10),
      DecimalDigit((y \div 10) % 10), DecimalDigit(y % 10),
      DecimalDigit(m \div 10), DecimalDigit(m % 10)>>

\* target_date.strftime('%Y%m')
strftime_Ym(date) == YearMonthText(date.year, date.month)

\* a URL template with one {yyyymm} placeholder, and template.format(yyyymm=...)
MonthlyTemplate == [before |-> <<"cda_fi_">>, after |-> <<".zip">>]
Format(template, yyyymm) == template.before \o yyyymm \o template.after

\* get_monthly_urls(template, months) called on day today
get_monthly_urls(template, months, today) ==
    [k \in 1..months |->
        Format(template, strftime_Ym(DateOf(MinusDays(today, 30 * (k - 1)))))]

\* get_available_monthly_urls(template, months) called on day today, with
\* the answer of the server to the HEAD request of each URL
get_available_monthly_urls(template, months, today, server) ==
    SelectSeq(get_monthly_urls(template, months, today),
              LAMBDA url : url_exists(url, server[url]).result.value)

InitMonthly ==
    /\ PipeIdle /\ StoreIdle /\ MergeIdle
    /\ ParseIdle /\ ConsIdle /\ CdaIdle /\ DbIdle
    /\ cache = EmptyMap
    /\ now \in Todays
    /\ ticks = 0
    /\ fetched = NoFetch
    /\ fpc = "monthly"

GetMonthlyUrls ==
    /\ fpc = "monthly"
    /\ \E months \in 1..MaxMonthsBack :
          fetched' = [fn |-> "get_monthly_urls", months |-> months,
                      urls |-> get_monthly_urls(MonthlyTemplate, months, now)]
    /\ fpc' = "returned"
    /\ UNCHANGED <<cache, now, ticks>>
    /\ UNCHANGED <<pipeVars, storeVars, mergeVars, parseVars, consVars, cdaVars, dbVars>>

GetAvailableMonthlyUrls ==
    /\ fpc = "monthly"
    /\ \E months \in 1..MaxMonthsBack :
          LET all_urls == get_monthly_urls(MonthlyTemplate, months, now)
          IN \E server \in [Range(all_urls) -> HeadResponses] :
                fetched' = [fn |-> "get_available_monthly_urls",
                            months |-> months, urls |-> all_urls,
                            server |-> server,
                            available |->
                                get_available_monthly_urls(MonthlyTemplate,
                                                           months, now, server)]
    /\ fpc' = "returned"
    /\ UNCHANGED <<cache, now, ticks>>
    /\ UNCHANGED <<pipeVars, storeVars, mergeVars, parseVars, consVars, cdaVars, dbVars>>

MonthlyNext ==
    \/ GetMonthlyUrls
    \/ GetAvailableMonthlyUrls

SpecMonthly == InitMonthly /\ [][MonthlyNext]_vars

\* the calendar month k months before month m of year y
MonthsBefore(y, m, k) ==
    LET index == y * 12 + (m - 1) - k
    IN [year |-> index \div 12, month |-> (index % 12) + 1]

\* the URL of the calendar month k months before the month of day today
UrlOfMonthBefore(today, k) ==
    LET back == MonthsBefore(DateOf(today).year, DateOf(today).month, k)
    IN Format(MonthlyTemplate, YearMonthText(back.year, back.month))

\* C27: on every day the generated URLs are those of the month of that day
\* and of the months before it, one after the other without a repeat or a
\* gap, and the available URLs are those of them the server has, in order.
C27_MonthlyUrlsConsecutive ==
    fetched.fn \in {"get_monthly_urls", "get_available_monthly_urls"} =>
        /\ Len(fetched.urls) = fetched.months
        /\ \A k \in 1..fetched.months :
              fetched.urls[k] = UrlOfMonthBefore(now, k - 1)
        /\ fetched.fn = "get_available_monthly_urls" =>
              fetched.available
                 = SelectSeq(fetched.urls,
                             LAMBDA url : fetched.server[url].kind = "ok")

====
